---- MODULE Spec2Model ----
(***************************************************************************)
(* mixed-pickles: the commit validation engine (src/src/validation.rs),    *)
(* the layered configuration (ValidationConfig, ToolConfig, GitCLI) and    *)
(* the run() / commit_analyzer() driver (src/src/lib.rs).                  *)
(*                                                                         *)
(* Subjects, rule names and severity names are TLA+ strings; the regular   *)
(* expressions of validation.rs are written out as matchers over the      *)
(* characters of a string (ASCII subjects, and the long s).                *)
(***************************************************************************)
EXTENDS Integers, Sequences, FiniteSets, TLC

(***************************************************************************)
(* Option<T>: None is the empty sequence, Some(x) the one-element one.     *)
(***************************************************************************)
None == <<>>
Some(x) == <<x>>
IsSome(o) == o # <<>>
Unwrap(o) == o[1]

(***************************************************************************)
(* Characters and strings.                                                 *)
(***************************************************************************)
UpperAlphabet == "ABCDEFGHIJKLMNOPQRSTUVWXYZ"
LowerAlphabet == "abcdefghijklmnopqrstuvwxyz"
DigitAlphabet == "0123456789"

\* The i-th character of s as a one-character string, "" outside of s.
Ch(s, i) == IF i >= 1 /\ i <= Len(s) THEN SubSeq(s, i, i) ELSE ""

UpperChars == {SubSeq(UpperAlphabet, i, i) : i \in 1..26}
LowerChars == {SubSeq(LowerAlphabet, i, i) : i \in 1..26}
DigitChars == {SubSeq(DigitAlphabet, i, i) : i \in 1..10}

\* char::to_lowercase on ASCII.
LowerOf == [c \in UpperChars |->
              SubSeq(LowerAlphabet,
                     CHOOSE i \in 1..26 : SubSeq(UpperAlphabet, i, i) = c,
                     CHOOSE i \in 1..26 : SubSeq(UpperAlphabet, i, i) = c)] @@ <<>>
\* char::to_uppercase on ASCII.
UpperOf == [c \in LowerChars |->
              SubSeq(UpperAlphabet,
                     CHOOSE i \in 1..26 : SubSeq(LowerAlphabet, i, i) = c,
                     CHOOSE i \in 1..26 : SubSeq(LowerAlphabet, i, i) = c)] @@ <<>>

LowerChar(c) == IF c \in UpperChars THEN LowerOf[c] ELSE c
UpperChar(c) == IF c \in LowerChars THEN UpperOf[c] ELSE c

\* str::to_lowercase
RECURSIVE to_lowercase(_)
to_lowercase(s) ==
    IF Len(s) = 0 THEN ""
    ELSE LowerChar(SubSeq(s, 1, 1)) \o to_lowercase(SubSeq(s, 2, Len(s)))

\* U+017F LATIN SMALL LETTER LONG S, the one letter outside ASCII that the
\* subjects hold; the module text being ASCII, it is written as a character
\* that no subject holds otherwise. It is a lowercase letter: to_lowercase
\* leaves it, to_uppercase gives S, and the simple case folding of the regex
\* flag (?i) makes it equal to s.
LongS == "~"

\* The simple case folding under which a (?i) pattern written in lowercase
\* matches.
RECURSIVE case_fold(_)
case_fold(s) ==
    IF Len(s) = 0 THEN ""
    ELSE (IF SubSeq(s, 1, 1) = LongS THEN "s" ELSE LowerChar(SubSeq(s, 1, 1)))
         \o case_fold(SubSeq(s, 2, Len(s)))

\* regex classes \d, \w, \s and [a-z]
IsDigit(c) == c \in DigitChars
IsLower(c) == c \in LowerChars
IsWordChar(c) == c \in (DigitChars \cup LowerChars \cup UpperChars \cup {"_", LongS})
IsSpace(c) == c \in {" ", "\t"}

\* The literal lit occurs in s at position i.
StartsAt(s, i, lit) ==
    /\ i >= 1
    /\ i + Len(lit) - 1 <= Len(s)
    /\ SubSeq(s, i, i + Len(lit) - 1) = lit

\* str::starts_with and str::contains
starts_with(s, lit) == StartsAt(s, 1, lit)
contains(s, lit) == \E i \in 1..(Len(s) + 1) : StartsAt(s, i, lit)

\* regex \b at the gap in front of position i (i = Len(s) + 1: the end)
WordBoundary(s, i) == IsWordChar(Ch(s, i - 1)) # IsWordChar(Ch(s, i))

\* The first position >= i of s that holds no whitespace (regex \s*).
RECURSIVE SkipSpaces(_, _)
SkipSpaces(s, i) ==
    IF i <= Len(s) /\ IsSpace(Ch(s, i)) THEN SkipSpaces(s, i + 1) ELSE i

Min(S) == CHOOSE x \in S : \A y \in S : x <= y
Max(S) == CHOOSE x \in S : \A y \in S : x >= y

(***************************************************************************)
(* The regular expressions of validation.rs, as matchers.                  *)
(***************************************************************************)

\* (?i)(#\d+|gh-\d+|[A-Z]{2,}-\d+), unanchored
ReferenceIsMatch(s) ==
    LET l == case_fold(s) IN
    \E i \in 1..Len(l) :
       \/ Ch(l, i) = "#" /\ IsDigit(Ch(l, i + 1))
       \/ StartsAt(l, i, "gh-") /\ IsDigit(Ch(l, i + 3))
       \/ \E j \in (i + 2)..Len(l) :
             /\ \A k \in i..(j - 1) : IsLower(Ch(l, k))
             /\ Ch(l, j) = "-"
             /\ IsDigit(Ch(l, j + 1))

CommitTypes ==
    <<"feat", "fix", "docs", "style", "refactor", "perf", "test", "build",
      "ci", "chore", "revert">>

\* !?:\s.+ at position p of s
ConventionalTail(s, p) ==
    LET q == IF Ch(s, p) = "!" /\ Ch(s, p + 1) = ":" THEN p + 1 ELSE p IN
    /\ Ch(s, q) = ":"
    /\ IsSpace(Ch(s, q + 1))
    /\ Len(s) >= q + 2

\* ^(feat|...|revert)(\(.+\))?!?:\s.+ , case-sensitive
ConventionalIsMatch(s) ==
    \E t \in 1..Len(CommitTypes) :
       LET p == Len(CommitTypes[t]) + 1 IN
       /\ starts_with(s, CommitTypes[t])
       /\ \/ ConventionalTail(s, p)
          \/ /\ Ch(s, p) = "("
             /\ \E c \in (p + 2)..Len(s) :
                   Ch(s, c) = ")" /\ ConventionalTail(s, c + 1)

VagueVerbs ==
    <<"fixed", "fixes", "fixing", "fix", "updated", "updates", "update",
      "changed", "changes", "change", "modify", "modified", "modifies",
      "tweaked", "tweaks", "tweak", "adjusted", "adjusts", "adjust">>
VagueNouns ==
    <<"it", "this", "that", "things", "thing", "stuff", "code", "bug",
      "issue", "error", "problem">>

\* The ends of the matches of the vague-language pattern that start at i
\* (l is the lowercased subject).
VagueEnds(l, i) ==
    IF ~WordBoundary(l, i) THEN {}
    ELSE UNION { LET j == i + Len(VagueVerbs[v])
                     p == SkipSpaces(l, j)
                 IN  IF StartsAt(l, i, VagueVerbs[v]) /\ p > j
                     THEN UNION { LET q == p + Len(VagueNouns[n]) IN
                                  IF ~StartsAt(l, p, VagueNouns[n]) THEN {}
                                  ELSE {e \in {q, q + 1} :
                                          /\ e = q + 1 => Ch(l, q) = "s"
                                          /\ WordBoundary(l, e)}
                                  : n \in 1..Len(VagueNouns) }
                     ELSE {}
                 : v \in 1..Len(VagueVerbs) }

\* (?i)\b(fix(ed|es|ing)?|...)\s+(it|this|...|problem)s?\b : Regex::find
VagueFind(s) ==
    LET l == case_fold(s)
        starts == {i \in 1..Len(l) : VagueEnds(l, i) # {}}
    IN  IF starts = {} THEN None
        ELSE LET i == Min(starts) IN Some(SubSeq(s, i, Max(VagueEnds(l, i)) - 1))

\* \bwork.?in.?progress\b at position i of l
WorkInProgressAt(l, i) ==
    /\ WordBoundary(l, i)
    /\ StartsAt(l, i, "work")
    /\ \E a \in {0, 1} : \E b \in {0, 1} :
          /\ i + 4 + a <= Len(l) + 1
          /\ StartsAt(l, i + 4 + a, "in")
          /\ StartsAt(l, i + 6 + a + b, "progress")
          /\ WordBoundary(l, i + 14 + a + b)

\* \bdo\s*not\s*merge\b and \bdon'?t\s*merge\b at position i of l
DoNotMergeAt(l, i) ==
    /\ WordBoundary(l, i)
    /\ \/ /\ StartsAt(l, i, "do")
          /\ LET n == SkipSpaces(l, i + 2)
                 m == SkipSpaces(l, n + 3)
             IN  /\ StartsAt(l, n, "not")
                 /\ StartsAt(l, m, "merge")
                 /\ WordBoundary(l, m + 5)
       \/ \E t \in {"don't", "dont"} :
             /\ StartsAt(l, i, t)
             /\ LET m == SkipSpaces(l, i + Len(t))
                IN  StartsAt(l, m, "merge") /\ WordBoundary(l, m + 5)

\* (?i)(^wip\b|^wip:|^\[wip\]|\bwork.?in.?progress\b|^fixup!|^squash!|^amend!
\*      |\bdo\s*not\s*merge\b|\bdon'?t\s*merge\b|\bwip\s*$)
WipIsMatch(s) ==
    LET l == case_fold(s) IN
    \/ starts_with(l, "wip") /\ WordBoundary(l, 4)
    \/ starts_with(l, "wip:")
    \/ starts_with(l, "[wip]")
    \/ \E i \in 1..Len(l) : WorkInProgressAt(l, i)
    \/ starts_with(l, "fixup!")
    \/ starts_with(l, "squash!")
    \/ starts_with(l, "amend!")
    \/ \E i \in 1..Len(l) : DoNotMergeAt(l, i)
    \/ \E i \in 1..Len(l) :
          /\ WordBoundary(l, i)
          /\ StartsAt(l, i, "wip")
          /\ SkipSpaces(l, i + 3) = Len(l) + 1

NonImperativeVerbs ==
    <<"added", "removed", "fixed", "updated", "changed", "implemented",
      "created", "deleted", "modified", "refactored", "improved", "resolved",
      "merged", "moved", "renamed", "replaced", "cleaned", "enabled",
      "disabled", "converted", "introduced", "integrated", "adjusted",
      "corrected", "enhanced", "extended", "optimized", "simplified",
      "upgraded", "migrated", "adding", "removing", "fixing", "updating",
      "changing", "implementing", "creating", "deleting", "modifying",
      "refactoring", "improving", "resolving", "merging", "moving",
      "renaming", "replacing", "cleaning", "enabling", "disabling",
      "converting", "introducing", "integrating", "adjusting", "correcting",
      "enhancing", "extending", "optimizing", "simplifying", "upgrading",
      "migrating">>

\* The positions right after a match of
\* (?:feat|...|revert)(?:\([^)]+\))?!?:\s*  at the start of l.
PrefixEnds(l) ==
    UNION { LET p == Len(CommitTypes[t]) + 1
                closes == {c \in (p + 2)..Len(l) :
                             /\ Ch(l, c) = ")"
                             /\ \A k \in (p + 1)..(c - 1) : Ch(l, k) # ")"}
                afterScope == {p} \cup (IF Ch(l, p) = "(" THEN {c + 1 : c \in closes}
                                        ELSE {})
                afterBang == afterScope \cup {q + 1 : q \in {r \in afterScope : Ch(l, r) = "!"}}
            IN  IF starts_with(l, CommitTypes[t])
                THEN UNION { {e \in (q + 1)..SkipSpaces(l, q + 1) : TRUE}
                             : q \in {r \in afterBang : Ch(l, r) = ":"} }
                ELSE {}
            : t \in 1..Len(CommitTypes) }

\* (?i)^(?:<prefix>)?(added|...|migrating)\b : capture group 1
NonImperativeCapture(s) ==
    LET l == case_fold(s)
        hits == {<<p, v>> \in (PrefixEnds(l) \cup {1}) \X (1..Len(NonImperativeVerbs)) :
                   /\ StartsAt(l, p, NonImperativeVerbs[v])
                   /\ WordBoundary(l, p + Len(NonImperativeVerbs[v]))}
    IN  IF hits = {} THEN None
        ELSE LET h == CHOOSE x \in hits :
                        \A y \in hits : x[1] > y[1] \/ (x[1] = y[1] /\ x[2] <= y[2])
             IN  Some(SubSeq(s, h[1], h[1] + Len(NonImperativeVerbs[h[2]]) - 1))

(***************************************************************************)
(* Bounds and input pools.                                                 *)
(***************************************************************************)
MaxSeverityCalls == 1
MaxCommits == 2

\* Commit subjects handed to the validator.
SubjectPool ==
    { "",
      "fix bug",
      "Fixing stuff",
      "wip fix bug",
      "WIP: quick thing",
      "chore: bump deps",
      "fixup! address review comments",
      "Added login page for all users",
      "Added login page for all users!",
      "feat: Added OAuth2 support for admin login #412",
      "feat: add OAuth2 login support for admin users #412",
      "Improve error messages of the config loader (#88)",
      "Refactored the whole validation engine, do not merge",
      "fix(core)!: changed this in the tokenizer for PROJ-12",
      "WIP: updated things in the parser module yesterday GH-7",
      "docs: describe the layered configuration model in detail" }

\* Values of the threshold argument.
ThresholdPool == {10, 30, 50}

\* Subjects put together from a type token, a scope, a breaking-change mark,
\* a colon, the gap after it and a description.
FormatParts ==
    [type : {"feat", "revert", "Feat", "feature"},
     scope : {"", "(api)", "()"},
     bang : {"", "!"},
     colon : {":", ""},
     gap : {" ", "", "\t"},
     desc : {"", "add login"}]
FormatJoin(p) == p.type \o p.scope \o p.bang \o p.colon \o p.gap \o p.desc
FormatPool == {FormatJoin(p) : p \in FormatParts}

\* Subjects put together from a text, a candidate reference token and a text.
ReferenceParts ==
    [before : {"", "fix "},
     token : {"", "#123", "#", "#x", "GH-7", "gh-7", "Gh-7", "AB-1", "PROJ-12",
              "A-123", "ab-1", "Ab-12", "AB-", "AB1", "G-7", "-9"},
     after : {"", " now"}]
ReferenceJoin(p) == p.before \o p.token \o p.after
ReferencePool == {ReferenceJoin(p) : p \in ReferenceParts}

\* Subjects for suggest_commit_type: a first word and a tail that holds one of
\* the keywords, so that the rules meet in every order.
TypePool ==
    {first \o tail :
        first \in { "Merge", "fix", "Add", "implement", "create", "introduce",
                    "delete", "Remove", "init", "Update", "tweak" },
        tail \in { "", " prefix", " resolve", " repair", " patch", " correct",
                   " new feature", " refactor", " restructure", " reorganize",
                   " simplify", " clean up", " bump", " upgrade", " update dep",
                   " dependency", " version", " config", " readme", " doc",
                   " comment", " typo", " test", " spec", " coverage" }}

\* Letter cases of a verb of NON_IMPERATIVE_REGEX: first letter in upper
\* case, every letter in upper case, and every s written as the long s.
Capitalized(v) == UpperChar(SubSeq(v, 1, 1)) \o SubSeq(v, 2, Len(v))
RECURSIVE Uppercased(_)
Uppercased(v) ==
    IF Len(v) = 0 THEN ""
    ELSE UpperChar(SubSeq(v, 1, 1)) \o Uppercased(SubSeq(v, 2, Len(v)))
RECURSIVE WithLongS(_)
WithLongS(v) ==
    IF Len(v) = 0 THEN ""
    ELSE (IF SubSeq(v, 1, 1) = "s" THEN LongS ELSE SubSeq(v, 1, 1))
         \o WithLongS(SubSeq(v, 2, Len(v)))
VerbForms ==
    UNION { {NonImperativeVerbs[v], Capitalized(NonImperativeVerbs[v]),
             Uppercased(NonImperativeVerbs[v]), WithLongS(NonImperativeVerbs[v]),
             Capitalized(WithLongS(NonImperativeVerbs[v]))}
            : v \in 1..Len(NonImperativeVerbs) }
VerbPool == {prefix \o form \o " the parser" :
                prefix \in {"", "fix(core): "}, form \in VerbForms}

\* All subjects that commits are validated on.
Subjects == SubjectPool \cup FormatPool \cup ReferencePool

(***************************************************************************)
(* The lazily compiled statics: each regex is the table of its result on   *)
(* the subjects.                                                           *)
(***************************************************************************)
REFERENCE_REGEX == [s \in Subjects |-> ReferenceIsMatch(s)] @@ <<>>
CONVENTIONAL_COMMIT_REGEX == [s \in Subjects |-> ConventionalIsMatch(s)] @@ <<>>
VAGUE_LANGUAGE_REGEX == [s \in Subjects |-> VagueFind(s)] @@ <<>>
WIP_COMMIT_REGEX == [s \in Subjects |-> WipIsMatch(s)] @@ <<>>
NON_IMPERATIVE_REGEX ==
    [s \in Subjects \cup VerbPool |-> NonImperativeCapture(s)] @@ <<>>

(***************************************************************************)
(* Data model.                                                             *)
(***************************************************************************)
Validation ==
    {"ShortCommit", "MissingReference", "InvalidFormat", "VagueLanguage",
     "WipCommit", "NonImperative"}
Severity == {"Error", "Warning", "Info", "Ignore"}

\* Finding::new
Finding(validation, severity) == [validation |-> validation, severity |-> severity]

\* Commit (the subject is the only field the validator reads)
Commit(hash, subject) == [hash |-> hash, subject |-> subject]

DefaultThreshold == 30

\* impl Default for ValidationConfig
\* Variant of DefaultConfig: the map holds only the severities that differ
\* from the Warning fallback of get_severity.
DefaultConfig_sparse ==
    [ severities |-> [v \in {"WipCommit", "MissingReference", "InvalidFormat"} |->
                        IF v = "WipCommit" THEN "Error" ELSE "Info"],
      threshold |-> DefaultThreshold,
      check_short |-> TRUE,
      require_issue_ref |-> TRUE,
      require_conventional_format |-> TRUE,
      check_vague_language |-> TRUE,
      check_wip |-> TRUE,
      check_imperative |-> TRUE ]

DefaultConfig ==
    [ severities |-> [v \in Validation |->
                        CASE v = "WipCommit" -> "Error"
                          [] v \in {"ShortCommit", "VagueLanguage", "NonImperative"} -> "Warning"
                          [] OTHER -> "Info"],
      threshold |-> DefaultThreshold,
      check_short |-> TRUE,
      require_issue_ref |-> TRUE,
      require_conventional_format |-> TRUE,
      check_vague_language |-> TRUE,
      check_wip |-> TRUE,
      check_imperative |-> TRUE ]

\* ValidationConfig::py_new (with_threshold(t) is py_new(t, TRUE, ..., TRUE))
py_new(threshold, short, issue_ref, format, vague, wip, imperative) ==
    [DefaultConfig EXCEPT !.threshold = threshold,
                          !.check_short = short,
                          !.require_issue_ref = issue_ref,
                          !.require_conventional_format = format,
                          !.check_vague_language = vague,
                          !.check_wip = wip,
                          !.check_imperative = imperative]

\* HashMap::insert
Insert(map, k, v) == (k :> v) @@ map

\* Variant of get_severity: the overrides are not looked at.
get_severity_builtin(config, validation) ==
    CASE validation = "WipCommit" -> "Error"
      [] validation \in {"MissingReference", "InvalidFormat"} -> "Info"
      [] OTHER -> "Warning"

\* ValidationConfig::get_severity
get_severity(config, validation) ==
    IF validation \in DOMAIN config.severities
    THEN config.severities[validation]
    ELSE "Warning"

(***************************************************************************)
(* Pattern rules.                                                          *)
(***************************************************************************)
has_reference(subject) == REFERENCE_REGEX[subject]
has_conventional_format(subject) == CONVENTIONAL_COMMIT_REGEX[subject]
find_vague_language(subject) == VAGUE_LANGUAGE_REGEX[subject]
is_wip_commit(subject) == WIP_COMMIT_REGEX[subject]
find_non_imperative(subject) == NON_IMPERATIVE_REGEX[subject]

\* Variant of Report: the Ignore test is missing.
Report_ignored(config, validation) ==
    Some(Finding(validation, get_severity(config, validation)))

\* Variant of Report: the finding carries the default severity of the rule.
Report_default_severity(config, validation) ==
    IF get_severity(config, validation) # "Ignore"
    THEN Some(Finding(validation, get_severity(DefaultConfig, validation)))
    ELSE None

\* The common tail of the check_* functions: the finding unless Ignore.
Report(config, validation) ==
    LET severity == get_severity(config, validation) IN
    IF severity # "Ignore" THEN Some(Finding(validation, severity)) ELSE None

\* Variant of check_short: < instead of <=.
check_short_strict(subject, config) ==
    IF ~config.check_short THEN None
    ELSE IF Len(subject) < config.threshold THEN Report(config, "ShortCommit")
    ELSE None

check_short(subject, config) ==
    IF ~config.check_short THEN None
    ELSE IF Len(subject) <= config.threshold THEN Report(config, "ShortCommit")
    ELSE None

check_issue_reference(subject, config) ==
    IF ~has_reference(subject) THEN Report(config, "MissingReference") ELSE None

\* Variant of check_conventional_format: a WIP subject is let through.
check_conventional_format_unless_wip(subject, config) ==
    IF ~has_conventional_format(subject) /\ ~is_wip_commit(subject)
    THEN Report(config, "InvalidFormat")
    ELSE None

check_conventional_format(subject, config) ==
    IF ~has_conventional_format(subject) THEN Report(config, "InvalidFormat") ELSE None

check_vague(subject, config) ==
    IF IsSome(find_vague_language(subject)) THEN Report(config, "VagueLanguage") ELSE None

check_wip(subject, config) ==
    IF is_wip_commit(subject) THEN Report(config, "WipCommit") ELSE None

check_imperative(subject, config) ==
    IF IsSome(find_non_imperative(subject)) THEN Report(config, "NonImperative") ELSE None

(***************************************************************************)
(* Variants of validate_commit.                                            *)
(***************************************************************************)
\* The steps of validate_commit, in the order given by the permutation order
\* of 1..6; wip_gate: WIP suppresses short and vague; short_flag: the
\* is_short of the last step.
ValidateSteps(subject, config, is_wip, wip_gate, short_flag) ==
    << IF is_wip THEN check_wip(subject, config) ELSE None,
       IF wip_gate THEN check_short(subject, config) ELSE None,
       IF wip_gate /\ config.check_vague_language
       THEN check_vague(subject, config) ELSE None,
       IF config.require_issue_ref
       THEN check_issue_reference(subject, config) ELSE None,
       IF config.require_conventional_format
       THEN check_conventional_format(subject, config) ELSE None,
       IF config.check_imperative /\ ~short_flag
       THEN check_imperative(subject, config) ELSE None >>

\* WIP does not suppress the short and vague checks.
validate_commit_wip_unsuppressed(commit, config) ==
    LET subject == commit.subject
        is_wip == config.check_wip /\ is_wip_commit(subject)
        st == ValidateSteps(subject, config, is_wip, TRUE,
                            Len(subject) <= config.threshold)
    IN  st[1] \o st[2] \o st[3] \o st[4] \o st[5] \o st[6]

\* is_short is taken from the finding list, not from the subject.
validate_commit_short_by_finding(commit, config) ==
    LET subject == commit.subject
        is_wip == config.check_wip /\ is_wip_commit(subject)
        st == ValidateSteps(subject, config, is_wip, ~is_wip,
                            ~is_wip /\ check_short(subject, config) # None)
    IN  st[1] \o st[2] \o st[3] \o st[4] \o st[5] \o st[6]

\* The WIP finding is pushed a second time at the end.
validate_commit_wip_twice(commit, config) ==
    LET subject == commit.subject
        is_wip == config.check_wip /\ is_wip_commit(subject)
        st == ValidateSteps(subject, config, is_wip, ~is_wip,
                            ~is_wip /\ Len(subject) <= config.threshold)
    IN  st[1] \o st[2] \o st[3] \o st[4] \o st[5] \o st[6] \o st[1]

\* The checks run in the order of the enum's variants.
validate_commit_enum_order(commit, config) ==
    LET subject == commit.subject
        is_wip == config.check_wip /\ is_wip_commit(subject)
        st == ValidateSteps(subject, config, is_wip, ~is_wip,
                            ~is_wip /\ Len(subject) <= config.threshold)
    IN  st[2] \o st[4] \o st[5] \o st[3] \o st[1] \o st[6]

\* The reference check is skipped for WIP commits, like short and vague.
validate_commit_ref_unless_wip(commit, config) ==
    LET subject == commit.subject
        is_wip == config.check_wip /\ is_wip_commit(subject)
        st == ValidateSteps(subject, config, is_wip, ~is_wip,
                            ~is_wip /\ Len(subject) <= config.threshold)
    IN  st[1] \o st[2] \o st[3] \o (IF is_wip THEN None ELSE st[4]) \o st[5] \o st[6]

\* A short subject does not suppress the imperative check.
validate_commit_imperative_when_short(commit, config) ==
    LET subject == commit.subject
        is_wip == config.check_wip /\ is_wip_commit(subject)
        st == ValidateSteps(subject, config, is_wip, ~is_wip, FALSE)
    IN  st[1] \o st[2] \o st[3] \o st[4] \o st[5] \o st[6]

\* Short and vague are suppressed by the WIP finding, not by the WIP match.
validate_commit_wip_by_finding(commit, config) ==
    LET subject == commit.subject
        is_wip == config.check_wip /\ is_wip_commit(subject)
        no_wip == ~is_wip \/ check_wip(subject, config) = None
        st == ValidateSteps(subject, config, is_wip, no_wip,
                            no_wip /\ Len(subject) <= config.threshold)
    IN  st[1] \o st[2] \o st[3] \o st[4] \o st[5] \o st[6]

(***************************************************************************)
(* The validator.  An Option<Finding> is a sequence of at most one         *)
(* finding, so pushing the Some(f) of each step is concatenation.          *)
(***************************************************************************)
validate_commit(commit, config) ==
    LET subject == commit.subject
        is_wip == config.check_wip /\ is_wip_commit(subject)
        is_short == ~is_wip /\ Len(subject) <= config.threshold
    IN  (IF is_wip THEN check_wip(subject, config) ELSE None)
        \o (IF ~is_wip THEN check_short(subject, config) ELSE None)
        \o (IF ~is_wip /\ config.check_vague_language
            THEN check_vague(subject, config) ELSE None)
        \o (IF config.require_issue_ref
            THEN check_issue_reference(subject, config) ELSE None)
        \o (IF config.require_conventional_format
            THEN check_conventional_format(subject, config) ELSE None)
        \o (IF config.check_imperative /\ ~is_short
            THEN check_imperative(subject, config) ELSE None)

\* ValidationResult: commit is the reference into commits, as its index.
ValidationResult(i, findings) == [commit |-> i, findings |-> findings]

\* Variant of validate_commits: the filter is missing.
validate_commits_unfiltered(commits, config) ==
    [i \in 1..Len(commits) |->
        ValidationResult(i, validate_commit(commits[i], config))]

\* validate_commits: map, filter, collect
validate_commits(commits, config) ==
    SelectSeq([i \in 1..Len(commits) |->
                  ValidationResult(i, validate_commit(commits[i], config))],
              LAMBDA result : result.findings # <<>>)

\* ValidationResult::has_errors / has_warnings
has_errors(result) ==
    \E k \in 1..Len(result.findings) : result.findings[k].severity = "Error"

\* Variant of has_warnings: every finding below Error counts.
has_warnings_below_error(result) ==
    \E k \in 1..Len(result.findings) : result.findings[k].severity # "Error"

has_warnings(result) ==
    \E k \in 1..Len(result.findings) : result.findings[k].severity = "Warning"

(***************************************************************************)
(* Suggestions.                                                            *)
(***************************************************************************)

\* Variant of suggest_commit_type: the docs keywords are tried before the
\* chore keywords.
suggest_commit_type_docs_first(subject) ==
    LET lower == to_lowercase(subject) IN
    IF starts_with(lower, "merge") THEN "chore"
    ELSE IF \/ starts_with(lower, "fix")
            \/ contains(lower, "resolve")
            \/ contains(lower, "repair")
            \/ contains(lower, "patch")
            \/ contains(lower, "correct")
    THEN "fix"
    ELSE IF \/ starts_with(lower, "add")
            \/ starts_with(lower, "implement")
            \/ starts_with(lower, "create")
            \/ starts_with(lower, "introduce")
            \/ contains(lower, "new feature")
    THEN "feat"
    ELSE IF \/ contains(lower, "refactor")
            \/ contains(lower, "restructure")
            \/ contains(lower, "reorganize")
            \/ contains(lower, "simplify")
            \/ contains(lower, "clean up")
    THEN "refactor"
    ELSE IF \/ contains(lower, "readme")
            \/ contains(lower, "doc")
            \/ contains(lower, "comment")
            \/ contains(lower, "typo")
    THEN "docs"
    ELSE IF \/ starts_with(lower, "delete")
            \/ starts_with(lower, "remove")
            \/ starts_with(lower, "init")
            \/ contains(lower, "bump")
            \/ contains(lower, "upgrade")
            \/ contains(lower, "update dep")
            \/ contains(lower, "dependency")
            \/ contains(lower, "version")
            \/ contains(lower, "config")
    THEN "chore"
    ELSE IF contains(lower, "test") \/ contains(lower, "spec") \/ contains(lower, "coverage")
    THEN "test"
    ELSE "feat"

\* suggest_commit_type
suggest_commit_type(subject) ==
    LET lower == to_lowercase(subject) IN
    IF starts_with(lower, "merge") THEN "chore"
    ELSE IF \/ starts_with(lower, "fix")
            \/ contains(lower, "resolve")
            \/ contains(lower, "repair")
            \/ contains(lower, "patch")
            \/ contains(lower, "correct")
    THEN "fix"
    ELSE IF \/ starts_with(lower, "add")
            \/ starts_with(lower, "implement")
            \/ starts_with(lower, "create")
            \/ starts_with(lower, "introduce")
            \/ contains(lower, "new feature")
    THEN "feat"
    ELSE IF \/ contains(lower, "refactor")
            \/ contains(lower, "restructure")
            \/ contains(lower, "reorganize")
            \/ contains(lower, "simplify")
            \/ contains(lower, "clean up")
    THEN "refactor"
    ELSE IF \/ starts_with(lower, "delete")
            \/ starts_with(lower, "remove")
            \/ starts_with(lower, "init")
            \/ contains(lower, "bump")
            \/ contains(lower, "upgrade")
            \/ contains(lower, "update dep")
            \/ contains(lower, "dependency")
            \/ contains(lower, "version")
            \/ contains(lower, "config")
    THEN "chore"
    ELSE IF \/ contains(lower, "readme")
            \/ contains(lower, "doc")
            \/ contains(lower, "comment")
            \/ contains(lower, "typo")
    THEN "docs"
    ELSE IF contains(lower, "test") \/ contains(lower, "spec") \/ contains(lower, "coverage")
    THEN "test"
    ELSE "feat"

\* get_wip_suggestion
get_wip_suggestion(subject) ==
    LET lower == to_lowercase(subject) IN
    IF starts_with(lower, "fixup!")
    THEN "Squash before merging: git rebase -i --autosquash"
    ELSE IF starts_with(lower, "squash!")
    THEN "Squash before merging: git rebase -i --autosquash"
    ELSE IF starts_with(lower, "amend!")
    THEN "Rebase before merging: git rebase -i --autosquash"
    ELSE IF \/ contains(lower, "do not merge")
            \/ contains(lower, "don't merge")
            \/ contains(lower, "dont merge")
    THEN "Remove marker when ready: git commit --amend"
    ELSE "Finalize before merging: git commit --amend"

\* The entries of IMPERATIVE_MAP
ImperativeEntries ==
    << <<"added", "add">>, <<"removed", "remove">>, <<"fixed", "fix">>,
       <<"updated", "update">>, <<"changed", "change">>,
       <<"implemented", "implement">>, <<"created", "create">>,
       <<"deleted", "delete">>, <<"modified", "modify">>,
       <<"refactored", "refactor">>, <<"improved", "improve">>,
       <<"resolved", "resolve">>, <<"merged", "merge">>, <<"moved", "move">>,
       <<"renamed", "rename">>, <<"replaced", "replace">>,
       <<"cleaned", "clean">>, <<"enabled", "enable">>,
       <<"disabled", "disable">>, <<"converted", "convert">>,
       <<"introduced", "introduce">>, <<"integrated", "integrate">>,
       <<"adjusted", "adjust">>, <<"corrected", "correct">>,
       <<"enhanced", "enhance">>, <<"extended", "extend">>,
       <<"optimized", "optimize">>, <<"simplified", "simplify">>,
       <<"upgraded", "upgrade">>, <<"migrated", "migrate">>,
       <<"adding", "add">>, <<"removing", "remove">>, <<"fixing", "fix">>,
       <<"updating", "update">>, <<"changing", "change">>,
       <<"implementing", "implement">>, <<"creating", "create">>,
       <<"deleting", "delete">>, <<"modifying", "modify">>,
       <<"refactoring", "refactor">>, <<"improving", "improve">>,
       <<"resolving", "resolve">>, <<"merging", "merge">>,
       <<"moving", "move">>, <<"renaming", "rename">>,
       <<"replacing", "replace">>, <<"cleaning", "clean">>,
       <<"enabling", "enable">>, <<"disabling", "disable">>,
       <<"converting", "convert">>, <<"introducing", "introduce">>,
       <<"integrating", "integrate">>, <<"adjusting", "adjust">>,
       <<"correcting", "correct">>, <<"enhancing", "enhance">>,
       <<"extending", "extend">>, <<"optimizing", "optimize">>,
       <<"simplifying", "simplify">>, <<"upgrading", "upgrade">>,
       <<"migrating", "migrate">> >>

\* IMPERATIVE_MAP
IMPERATIVE_MAP ==
    [word \in {ImperativeEntries[k][1] : k \in 1..Len(ImperativeEntries)} |->
       ImperativeEntries[CHOOSE k \in 1..Len(ImperativeEntries) :
                            ImperativeEntries[k][1] = word][2]] @@ <<>>

\* to_imperative
to_imperative(word) ==
    LET lower == to_lowercase(word) IN
    IF lower \in DOMAIN IMPERATIVE_MAP THEN IMPERATIVE_MAP[lower] ELSE word

\* char::is_uppercase and char::to_uppercase
is_uppercase(c) == c \in UpperChars
to_uppercase(c) == IF c = LongS THEN "S" ELSE UpperChar(c)

\* Validation::suggest; the arrow of the NonImperative phrasing, U+2192, is
\* written ->
suggest(self, subject) ==
    CASE self = "ShortCommit" -> "Add context: what changed and why"
      [] self = "MissingReference" ->
             "Add a ticket reference (e.g., #123 or PROJ-456) if applicable"
      [] self = "InvalidFormat" ->
             "Use conventional format: '" \o suggest_commit_type(subject)
                 \o ": <description>'"
      [] self = "VagueLanguage" ->
             LET vague_phrase == find_vague_language(subject) IN
             IF vague_phrase # None
             THEN "'" \o Unwrap(vague_phrase) \o "' lacks specifics - mention what and where"
             ELSE "Be specific about what changed and where"
      [] self = "WipCommit" -> get_wip_suggestion(subject)
      [] self = "NonImperative" ->
             LET found == find_non_imperative(subject) IN
             IF found = None THEN "Use imperative mood (e.g., 'Add' not 'Added')"
             ELSE LET before == Unwrap(found)
                      mapped == to_imperative(before)
                      after == IF is_uppercase(Ch(before, 1)) /\ mapped # ""
                               THEN to_uppercase(Ch(mapped, 1))
                                        \o SubSeq(mapped, 2, Len(mapped))
                               ELSE mapped
                  IN  "Use imperative: '" \o before \o "' -> '" \o after \o "'"

(***************************************************************************)
(* Rule names, severity names and the two layers.                          *)
(***************************************************************************)

\* str::split(',')
RECURSIVE Split(_)
Split(s) ==
    LET commas == {i \in 1..Len(s) : Ch(s, i) = ","} IN
    IF commas = {} THEN <<s>>
    ELSE LET i == Min(commas) IN
         <<SubSeq(s, 1, i - 1)>> \o Split(SubSeq(s, i + 1, Len(s)))

\* str::trim
trim(s) ==
    LET solid == {i \in 1..Len(s) : ~IsSpace(Ch(s, i))} IN
    IF solid = {} THEN "" ELSE SubSeq(s, Min(solid), Max(solid))

\* str::replace('-', "")
RECURSIVE RemoveHyphens(_)
RemoveHyphens(s) ==
    IF Len(s) = 0 THEN ""
    ELSE (IF SubSeq(s, 1, 1) = "-" THEN "" ELSE SubSeq(s, 1, 1))
         \o RemoveHyphens(SubSeq(s, 2, Len(s)))

\* Result<T, E>
Ok(v) == [ok |-> TRUE, val |-> v]
Err(e) == [ok |-> FALSE, val |-> e]

\* impl FromStr for Validation
Validation_from_str(s) ==
    LET l == to_lowercase(s) IN
    CASE l \in {"shortcommit", "short"} -> Ok("ShortCommit")
      [] l \in {"missingreference", "reference", "ref"} -> Ok("MissingReference")
      [] l \in {"invalidformat", "format"} -> Ok("InvalidFormat")
      [] l \in {"vaguelanguage", "vague"} -> Ok("VagueLanguage")
      [] l \in {"wipcommit", "wip"} -> Ok("WipCommit")
      [] l \in {"nonimperative", "imperative"} -> Ok("NonImperative")
      [] OTHER -> Err("Unknown validation type: " \o s)

\* Variant of Severity::from_str: the string is matched as written.
Severity_from_str_as_written(s) ==
    CASE s = "error" -> Ok("Error")
      [] s \in {"warning", "warn"} -> Ok("Warning")
      [] s = "info" -> Ok("Info")
      [] s \in {"ignore", "off"} -> Ok("Ignore")
      [] OTHER -> Err("Unknown severity: " \o s)

\* impl FromStr for Severity
Severity_from_str(s) ==
    LET l == to_lowercase(s) IN
    CASE l = "error" -> Ok("Error")
      [] l \in {"warning", "warn"} -> Ok("Warning")
      [] l = "info" -> Ok("Info")
      [] l \in {"ignore", "off"} -> Ok("Ignore")
      [] OTHER -> Err("Unknown severity: " \o s)

\* The outcome of a method on &mut ValidationConfig that returns
\* Result<(), E>: the configuration as the method left it, and the error.
Done(config) == [config |-> config, err |-> None]
Failed(config, kind, arg) == [config |-> config, err |-> Some(<<kind, arg>>)]

\* The match of ValidationConfig::parse_and_disable: the flag a name clears.
parse_and_disable_flag(lower) ==
    CASE lower \in {"shortcommit", "short"} -> Some("check_short")
      [] lower \in {"missingreference", "reference", "ref"} -> Some("require_issue_ref")
      [] lower \in {"invalidformat", "format"} -> Some("require_conventional_format")
      [] lower \in {"vaguelanguage", "vague"} -> Some("check_vague_language")
      [] lower \in {"wipcommit", "wip"} -> Some("check_wip")
      [] lower \in {"nonimperative", "imperative"} -> Some("check_imperative")
      [] OTHER -> None

\* Variant of parse_and_set: giving a rule a severity also enables the rule.
RECURSIVE parse_and_set_loop_enabling(_, _, _)
parse_and_set_loop_enabling(config, names, severity) ==
    IF names = <<>> THEN Done(config)
    ELSE LET name == trim(Head(names)) IN
         IF name = "" THEN parse_and_set_loop_enabling(config, Tail(names), severity)
         ELSE LET validation == Validation_from_str(name) IN
              IF ~validation.ok THEN Failed(config, "String", validation.val)
              ELSE parse_and_set_loop_enabling(
                       [config EXCEPT
                           !.severities = Insert(@, validation.val, severity),
                           ![Unwrap(parse_and_disable_flag(to_lowercase(name)))] = TRUE],
                       Tail(names), severity)

\* ValidationConfig::parse_and_set, from the k-th name on
RECURSIVE parse_and_set_loop(_, _, _)
parse_and_set_loop(config, names, severity) ==
    IF names = <<>> THEN Done(config)
    ELSE LET name == trim(Head(names)) IN
         IF name = "" THEN parse_and_set_loop(config, Tail(names), severity)
         ELSE LET validation == Validation_from_str(name) IN
              IF ~validation.ok THEN Failed(config, "String", validation.val)
              ELSE parse_and_set_loop(
                       [config EXCEPT !.severities = Insert(@, validation.val, severity)],
                       Tail(names), severity)

parse_and_set(config, validations, severity) ==
    parse_and_set_loop(config, Split(validations), severity)

RECURSIVE parse_and_disable_loop(_, _)
parse_and_disable_loop(config, names) ==
    IF names = <<>> THEN Done(config)
    ELSE LET name == trim(Head(names)) IN
         IF name = "" THEN parse_and_disable_loop(config, Tail(names))
         ELSE LET flag == parse_and_disable_flag(to_lowercase(name)) IN
              IF flag = None
              THEN Failed(config, "String", "Unknown validation type: " \o name)
              ELSE parse_and_disable_loop([config EXCEPT ![Unwrap(flag)] = FALSE],
                                          Tail(names))

parse_and_disable(config, validations) ==
    parse_and_disable_loop(config, Split(validations))

\* ValidationConfig::disable_validation
disable_validation(config, name) ==
    LET key == RemoveHyphens(to_lowercase(name)) IN
    CASE key \in {"shortcommit", "short"} ->
             Done([config EXCEPT !.check_short = FALSE])
      [] key \in {"missingreference", "reference", "ref"} ->
             Done([config EXCEPT !.require_issue_ref = FALSE])
      [] key \in {"invalidformat", "format"} ->
             Done([config EXCEPT !.require_conventional_format = FALSE])
      [] key \in {"vaguelanguage", "vague"} ->
             Done([config EXCEPT !.check_vague_language = FALSE])
      [] key \in {"wipcommit", "wip"} ->
             Done([config EXCEPT !.check_wip = FALSE])
      [] key \in {"nonimperative", "imperative"} ->
             Done([config EXCEPT !.check_imperative = FALSE])
      [] OTHER -> Failed(config, "ConfigError::InvalidValidation", name)

\* ValidationConfig::set_severity_from_str
set_severity_from_str(config, validation, severity_str) ==
    LET severity == Severity_from_str(severity_str) IN
    IF ~severity.ok THEN Failed(config, "ConfigError::InvalidSeverity", severity_str)
    ELSE Done([config EXCEPT !.severities = Insert(@, validation, severity.val)])

\* SeverityConfig: six Option<String> fields
SeverityConfig(short, wip, reference, format, vague, imperative) ==
    [short |-> short, wip |-> wip, reference |-> reference, format |-> format,
     vague |-> vague, imperative |-> imperative]

\* The mappings array of ValidationConfig::apply_severity_config
SeverityMappings ==
    << <<"short", "ShortCommit">>, <<"wip", "WipCommit">>,
       <<"reference", "MissingReference">>, <<"format", "InvalidFormat">>,
       <<"vague", "VagueLanguage">>, <<"imperative", "NonImperative">> >>

RECURSIVE apply_severity_config_loop(_, _, _)
apply_severity_config_loop(config, severity_config, k) ==
    IF k > Len(SeverityMappings) THEN Done(config)
    ELSE LET severity_opt == severity_config[SeverityMappings[k][1]] IN
         IF severity_opt = None
         THEN apply_severity_config_loop(config, severity_config, k + 1)
         ELSE LET r == set_severity_from_str(config, SeverityMappings[k][2],
                                             Unwrap(severity_opt)) IN
              IF r.err # None THEN r
              ELSE apply_severity_config_loop(r.config, severity_config, k + 1)

apply_severity_config(config, severity_config) ==
    apply_severity_config_loop(config, severity_config, 1)

\* ToolConfig
ToolConfig(threshold, strict, disable, severity) ==
    [threshold |-> threshold, strict |-> strict, disable |-> disable,
     severity |-> severity]

\* The keys serde accepts for each field of SeverityConfig: the name of the
\* field and its alias.
SeverityConfigKeys ==
    [short |-> {"short", "short-commit"},
     wip |-> {"wip", "wip-commit"},
     reference |-> {"reference", "missing-reference"},
     format |-> {"format", "invalid-format"},
     vague |-> {"vague", "vague-language"},
     imperative |-> {"imperative", "non-imperative"}]

\* #[derive(Deserialize)] #[serde(default)] of SeverityConfig, applied to the
\* [severity] table given as its <<key, value>> pairs: a key that names no
\* field is skipped (no deny_unknown_fields), a field given twice is an
\* error, a field that is not given is None.
SeverityConfig_deserialize(table) ==
    LET At(field) ==
            {k \in 1..Len(table) : table[k][1] \in SeverityConfigKeys[field]}
    IN  IF \E field \in DOMAIN SeverityConfigKeys : Cardinality(At(field)) > 1
        THEN Err("ConfigError::Parse")
        ELSE Ok([field \in DOMAIN SeverityConfigKeys |->
                   IF At(field) = {} THEN None
                   ELSE Some(table[CHOOSE k \in At(field) : TRUE][2])])

\* load_config: toml::from_str of the content of the file. The content is
\* the [tool.mixed-pickles] table as written: threshold, strict, disable and
\* the [severity] table.
load_config(content) ==
    IF content.severity = None
    THEN Ok(ToolConfig(content.threshold, content.strict, content.disable, None))
    ELSE LET severity == SeverityConfig_deserialize(Unwrap(content.severity)) IN
         IF ~severity.ok THEN Err(severity.val)
         ELSE Ok(ToolConfig(content.threshold, content.strict, content.disable,
                            Some(severity.val)))

RECURSIVE disable_loop(_, _)
disable_loop(config, names) ==
    IF names = <<>> THEN Done(config)
    ELSE LET r == disable_validation(config, Head(names)) IN
         IF r.err # None THEN r ELSE disable_loop(r.config, Tail(names))

\* Variant of apply_file_config: strict = true in the file turns the Warning
\* severities into Error.
apply_file_config_strict(config, tool) ==
    LET c0 == IF tool.strict = Some(TRUE)
              THEN [config EXCEPT
                       !.severities = [v \in DOMAIN @ |->
                                         IF @[v] = "Warning" THEN "Error" ELSE @[v]]]
              ELSE config
        c1 == IF tool.threshold # None
              THEN [c0 EXCEPT !.threshold = Unwrap(tool.threshold)]
              ELSE c0
        r2 == disable_loop(c1, tool.disable)
    IN  IF r2.err # None THEN r2
        ELSE IF tool.severity # None
             THEN apply_severity_config(r2.config, Unwrap(tool.severity))
             ELSE Done(r2.config)

\* ValidationConfig::apply_file_config
apply_file_config(config, tool) ==
    LET c1 == IF tool.threshold # None
              THEN [config EXCEPT !.threshold = Unwrap(tool.threshold)]
              ELSE config
        r2 == disable_loop(c1, tool.disable)
    IN  IF r2.err # None THEN r2
        ELSE IF tool.severity # None
             THEN apply_severity_config(r2.config, Unwrap(tool.severity))
             ELSE Done(r2.config)

\* GitCLI (the fields run() reads for the configuration and the verdict)
GitCLI(threshold, disable, error, warn, ignore, strict, no_config) ==
    [threshold |-> threshold, disable |-> disable, error |-> error,
     warn |-> warn, ignore |-> ignore, strict |-> strict,
     no_config |-> no_config]

\* The four string steps of apply_cli_overrides, each stopping at an error.
CliStep(r, arg, severity) ==
    IF r.err # None \/ arg = None THEN r
    ELSE LET n == IF severity = None
                  THEN parse_and_disable(r.config, Unwrap(arg))
                  ELSE parse_and_set(r.config, Unwrap(arg), Unwrap(severity))
         IN  IF n.err = None THEN n
             ELSE Failed(n.config, "CLIError::InvalidValidation", Unwrap(n.err)[2])

\* Variant of apply_cli_overrides: --threshold only replaces the default.
apply_cli_overrides_file_wins(self, config) ==
    LET c1 == IF self.threshold # None /\ config.threshold = DefaultThreshold
              THEN [config EXCEPT !.threshold = Unwrap(self.threshold)]
              ELSE config
        r2 == CliStep(Done(c1), self.disable, None)
        r3 == CliStep(r2, self.error, Some("Error"))
        r4 == CliStep(r3, self.warn, Some("Warning"))
    IN  CliStep(r4, self.ignore, Some("Ignore"))

\* Variant of apply_cli_overrides: the severity flags are applied in the
\* order ignore, warn, error.
apply_cli_overrides_error_last(self, config) ==
    LET c1 == IF self.threshold # None
              THEN [config EXCEPT !.threshold = Unwrap(self.threshold)]
              ELSE config
        r2 == CliStep(Done(c1), self.disable, None)
        r3 == CliStep(r2, self.ignore, Some("Ignore"))
        r4 == CliStep(r3, self.warn, Some("Warning"))
    IN  CliStep(r4, self.error, Some("Error"))

\* GitCLI::apply_cli_overrides
apply_cli_overrides(self, config) ==
    LET c1 == IF self.threshold # None
              THEN [config EXCEPT !.threshold = Unwrap(self.threshold)]
              ELSE config
        r2 == CliStep(Done(c1), self.disable, None)
        r3 == CliStep(r2, self.error, Some("Error"))
        r4 == CliStep(r3, self.warn, Some("Warning"))
    IN  CliStep(r4, self.ignore, Some("Ignore"))

(***************************************************************************)
(* State.                                                                  *)
(***************************************************************************)
VARIABLES
    config,              \* the ValidationConfig
    severity_calls,      \* number of severity() / set_severity() calls so far
    commit,              \* Some(argument of the validate_commit call), or None
    findings,            \* the Vec<Finding> validate_commit returned
    cli,                 \* run(): Some(self), the GitCLI
    config_file,         \* run(): Some(the content of the configuration file)
    file_config,         \* run(): Some(the ToolConfig load_config returned)
    commits,             \* commit_analyzer(): the fetched commits
    validation_results,  \* commit_analyzer(): what validate_commits returned
    result,              \* run(): Some(Ok(..)) or Some(Err(..)) once it returned
    suggestion,          \* Some(a call of Validation::suggest and what it returned)
    glob,                \* Some(the locals of a running glob_match_impl call)
    resolved,            \* Some(a rule name and what each resolver returned for it)
    pc                   \* "config", "validated": the library; "run",
                         \* "file_done", "cli_done", "done", "failed": run()

vars == <<config, severity_calls, commit, findings, cli, config_file, file_config,
          commits, validation_results, result, suggestion, glob, resolved, pc>>

runVars == <<cli, config_file, file_config, commits, validation_results, result,
            suggestion, glob, resolved>>

(***************************************************************************)
(* The library: a configuration is constructed, changed through the        *)
(* builder methods and setters, and commits are validated against it.      *)
(***************************************************************************)
Init ==
    /\ \E threshold \in ThresholdPool :
       \E short, issue_ref, format, vague, wip, imperative \in BOOLEAN :
          config = py_new(threshold, short, issue_ref, format, vague, wip, imperative)
    /\ severity_calls = 0
    /\ commit = None
    /\ findings = <<>>
    /\ cli = None
    /\ config_file = None
    /\ file_config = None
    /\ commits = <<>>
    /\ validation_results = <<>>
    /\ suggestion = None
    /\ glob = None
    /\ resolved = None
    /\ result = None
    /\ pc = "config"

\* A change of the configuration, while no validate_commit result is held.
Reconfigure(new) ==
    /\ pc = "config"
    /\ config' = new
    /\ UNCHANGED <<commit, findings, pc>>
    /\ UNCHANGED runVars

\* ValidationConfig::threshold (builder) and the threshold setter
Set_threshold(threshold) ==
    /\ Reconfigure([config EXCEPT !.threshold = threshold])
    /\ UNCHANGED severity_calls

\* ValidationConfig::check_short (builder)
Set_check_short(check) ==
    /\ Reconfigure([config EXCEPT !.check_short = check])
    /\ UNCHANGED severity_calls

\* ValidationConfig::require_issue_ref (builder)
Set_require_issue_ref(require) ==
    /\ Reconfigure([config EXCEPT !.require_issue_ref = require])
    /\ UNCHANGED severity_calls

\* ValidationConfig::require_conventional_format (builder)
Set_require_conventional_format(require) ==
    /\ Reconfigure([config EXCEPT !.require_conventional_format = require])
    /\ UNCHANGED severity_calls

\* ValidationConfig::check_vague_language (builder)
Set_check_vague_language(check) ==
    /\ Reconfigure([config EXCEPT !.check_vague_language = check])
    /\ UNCHANGED severity_calls

\* ValidationConfig::check_wip (builder)
Set_check_wip(check) ==
    /\ Reconfigure([config EXCEPT !.check_wip = check])
    /\ UNCHANGED severity_calls

\* ValidationConfig::check_imperative (builder)
Set_check_imperative(check) ==
    /\ Reconfigure([config EXCEPT !.check_imperative = check])
    /\ UNCHANGED severity_calls

\* ValidationConfig::severity (builder) and py_set_severity
Set_severity(validation, severity) ==
    /\ severity_calls < MaxSeverityCalls
    /\ Reconfigure([config EXCEPT !.severities = Insert(@, validation, severity)])
    /\ severity_calls' = severity_calls + 1

\* A call of validate_commit(&commit, &config)
ValidateCommit(c) ==
    /\ pc = "config"
    /\ commit' = Some(c)
    /\ findings' = validate_commit(c, config)
    /\ pc' = "validated"
    /\ UNCHANGED <<config, severity_calls>>
    /\ UNCHANGED runVars

\* The caller is done with the returned Vec<Finding>; it is dropped.
DropFindings ==
    /\ pc = "validated"
    /\ commit' = None
    /\ findings' = <<>>
    /\ pc' = "config"
    /\ UNCHANGED <<config, severity_calls>>
    /\ UNCHANGED runVars

Next ==
    \/ \E t \in ThresholdPool : Set_threshold(t)
    \/ \E b \in BOOLEAN : Set_check_short(b)
    \/ \E b \in BOOLEAN : Set_require_issue_ref(b)
    \/ \E b \in BOOLEAN : Set_require_conventional_format(b)
    \/ \E b \in BOOLEAN : Set_check_vague_language(b)
    \/ \E b \in BOOLEAN : Set_check_wip(b)
    \/ \E b \in BOOLEAN : Set_check_imperative(b)
    \/ \E v \in Validation : \E s \in Severity : Set_severity(v, s)
    \/ \E s \in SubjectPool : ValidateCommit(Commit("abc123", s))
    \/ DropFindings

Spec == Init /\ [][Next]_vars

(***************************************************************************)
(* GitCLI::run(): defaults, then the file layer, then the command line,    *)
(* then commit_analyzer().                                                 *)
(***************************************************************************)

\* Command lines.
CliPool ==
    { GitCLI(threshold, disable, error, warn, ignore, strict, no_config) :
        threshold \in {None, Some(50)},
        disable \in {None, Some("short, WIP"), Some("vague,bogus")},
        error \in {None, Some("ref"), Some("imperative,,Format")},
        warn \in {None, Some("reference")},
        ignore \in {None, Some("ref,short"), Some("non-imperative")},
        strict \in BOOLEAN,
        no_config \in BOOLEAN }

\* Contents of the configuration file: the [tool.mixed-pickles] table, with
\* the [severity] table as its <<key, value>> pairs.
FilePool ==
    { [threshold |-> threshold, strict |-> strict, disable |-> disable,
       severity |-> severity] :
        threshold \in {None, Some(20)},
        strict \in {None, Some(TRUE), Some(FALSE)},
        disable \in {<<>>, <<"format">>, <<"Non-Imperative", "nope">>},
        severity \in {None,
                      Some(<< <<"short", "error">> >>),
                      Some(<< <<"wip-commit", "WARN">>, <<"reference", "off">>,
                              <<"imperative", "info">> >>),
                      Some(<< <<"short", "warning">>, <<"vague", "fatal">> >>),
                      Some(<< <<"typo-rule", "error">>, <<"wip", "warn">> >>),
                      Some(<< <<"short", "error">>, <<"short-commit", "info">> >>)} }

\* Subjects of the commits git log returns, and their hashes by position.
RunSubjects ==
    { "Fixing stuff",
      "WIP: quick thing",
      "docs: describe the layered configuration model in detail" }
Hashes == <<"c1", "c2", "c3", "c4">>

CommitLists ==
    UNION { { [i \in 1..n |-> Commit(Hashes[i], subjects[i])] :
                subjects \in [1..n -> RunSubjects] } : n \in 0..MaxCommits }

InitRun ==
    /\ config = DefaultConfig
    /\ severity_calls = 0
    /\ commit = None
    /\ findings = <<>>
    /\ cli \in {Some(c) : c \in CliPool}
    /\ config_file = None
    /\ file_config = None
    /\ commits = <<>>
    /\ validation_results = <<>>
    /\ suggestion = None
    /\ glob = None
    /\ resolved = None
    /\ result = None
    /\ pc = "run"

\* run(): --no-config, or find_config() finds no file
NoConfigFile ==
    /\ pc = "run"
    /\ pc' = "file_done"
    /\ UNCHANGED <<config, severity_calls, commit, findings, runVars>>

\* run(): load_config(&config_file)? fails (unreadable file, invalid TOML)
LoadConfigFails ==
    /\ pc = "run"
    /\ ~Unwrap(cli).no_config
    /\ \E e \in {"ConfigError::Io", "ConfigError::Parse"} :
          result' = Some(Err(<<"CLIError::Config", <<e, "">> >>))
    /\ pc' = "failed"
    /\ UNCHANGED <<config, severity_calls, commit, findings, cli, config_file,
                   file_config, commits, validation_results, suggestion, glob, resolved>>

\* run(): load_config(&config_file)? of a file that was read, then
\* config.apply_file_config(&file_config)?
ApplyFileConfig(content) ==
    /\ pc = "run"
    /\ ~Unwrap(cli).no_config
    /\ config_file' = Some(content)
    /\ LET loaded == load_config(content) IN
       IF ~loaded.ok
       THEN /\ result' = Some(Err(<<"CLIError::Config", <<loaded.val, "">> >>))
            /\ pc' = "failed"
            /\ UNCHANGED <<config, file_config>>
       ELSE LET r == apply_file_config(config, loaded.val) IN
            /\ config' = r.config
            /\ file_config' = Some(loaded.val)
            /\ IF r.err = None
               THEN pc' = "file_done" /\ UNCHANGED result
               ELSE /\ pc' = "failed"
                    /\ result' = Some(Err(<<"CLIError::Config", Unwrap(r.err)>>))
    /\ UNCHANGED <<severity_calls, commit, findings, cli, commits, validation_results, suggestion, glob, resolved>>

\* run(): self.apply_cli_overrides(&mut config)?
ApplyCliOverrides ==
    /\ pc = "file_done"
    /\ LET r == apply_cli_overrides(Unwrap(cli), config) IN
       /\ config' = r.config
       /\ IF r.err = None
          THEN pc' = "cli_done" /\ UNCHANGED result
          ELSE pc' = "failed" /\ result' = Some(Err(Unwrap(r.err)))
    /\ UNCHANGED <<severity_calls, commit, findings, cli, config_file, file_config,
                   commits, validation_results, suggestion, glob, resolved>>

\* commit_analyzer(): validate_repo_path, count_commits or fetch_commits fails
GitFails ==
    /\ pc = "cli_done"
    /\ \E e \in {"CLIError::PathNotFound", "CLIError::NotARepository",
                 "CLIError::GitCommandFailed"} :
          result' = Some(Err(<<e, "">>))
    /\ pc' = "failed"
    /\ UNCHANGED <<config, severity_calls, commit, findings, cli, config_file,
                   file_config, commits, validation_results, suggestion, glob, resolved>>

\* commit_analyzer(), from the fetched commits to the verdict
CommitAnalyzer(fetched) ==
    /\ pc = "cli_done"
    /\ commits' = fetched
    /\ LET results == validate_commits(fetched, config)
           any_errors == \E k \in 1..Len(results) : has_errors(results[k])
           any_warnings == \E k \in 1..Len(results) : has_warnings(results[k])
           error_count == Cardinality({k \in 1..Len(results) : has_errors(results[k])})
       IN  /\ validation_results' = results
           /\ result' = IF any_errors \/ (Unwrap(cli).strict /\ any_warnings)
                        THEN Some(Err(<<"CLIError::ValidationFailed", error_count>>))
                        ELSE Some(Ok(<<>>))
    /\ pc' = "done"
    /\ UNCHANGED <<config, severity_calls, commit, findings, cli, config_file,
                   file_config, suggestion, glob, resolved>>

NextRun ==
    \/ NoConfigFile
    \/ LoadConfigFails
    \/ \E content \in FilePool : ApplyFileConfig(content)
    \/ ApplyCliOverrides
    \/ GitFails
    \/ \E fetched \in CommitLists : CommitAnalyzer(fetched)

SpecRun == InitRun /\ [][NextRun]_vars

(***************************************************************************)
(* Layers applied to one configuration in any order and number: the file   *)
(* layer through apply_file_config, the override layer through the calls   *)
(* of apply_cli_overrides. A failed call leaves the caller with the        *)
(* configuration as the call left it; commits are validated in between.    *)
(***************************************************************************)

\* File layers and command lines.
LayerFilePool ==
    { ToolConfig(threshold, None, disable, severity) :
        threshold \in {None, Some(20)},
        disable \in {<<>>, <<"short">>, <<"Non-Imperative", "nope">>},
        severity \in {None,
                      Some(SeverityConfig(Some("error"), None, None, None, None,
                                          Some("error"))),
                      Some(SeverityConfig(Some("warn"), None, None, None,
                                          Some("fatal"), None))} }
LayerCliPool ==
    { GitCLI(threshold, disable, error, None, ignore, FALSE, FALSE) :
        threshold \in {None, Some(50)},
        disable \in {None, Some("wip"), Some("vague,bogus")},
        error \in {None, Some("short,imperative")},
        ignore \in {None, Some("format")} }

InitLayers ==
    /\ config = DefaultConfig
    /\ severity_calls = 0
    /\ commit = None
    /\ findings = <<>>
    /\ cli = None
    /\ config_file = None
    /\ file_config = None
    /\ commits = <<>>
    /\ validation_results = <<>>
    /\ suggestion = None
    /\ glob = None
    /\ resolved = None
    /\ result = None
    /\ pc = "config"

\* A call of config.apply_file_config(&tool); result is what it returned.
Call_apply_file_config(tool) ==
    /\ pc = "config"
    /\ LET r == apply_file_config(config, tool) IN
       /\ config' = r.config
       /\ result' = Some(IF r.err = None THEN Ok(<<>>) ELSE Err(Unwrap(r.err)))
    /\ file_config' = Some(tool)
    /\ cli' = None
    /\ UNCHANGED <<severity_calls, commit, findings, config_file, commits,
                   validation_results, suggestion, glob, resolved, pc>>

\* A call of self.apply_cli_overrides(&mut config); result is what it returned.
Call_apply_cli_overrides(self) ==
    /\ pc = "config"
    /\ LET r == apply_cli_overrides(self, config) IN
       /\ config' = r.config
       /\ result' = Some(IF r.err = None THEN Ok(<<>>) ELSE Err(Unwrap(r.err)))
    /\ cli' = Some(self)
    /\ file_config' = None
    /\ UNCHANGED <<severity_calls, commit, findings, config_file, commits,
                   validation_results, suggestion, glob, resolved, pc>>

NextLayers ==
    \/ \E tool \in LayerFilePool : Call_apply_file_config(tool)
    \/ \E self \in LayerCliPool : Call_apply_cli_overrides(self)
    \/ \E s \in SubjectPool : ValidateCommit(Commit("abc123", s))
    \/ DropFindings

SpecLayers == InitLayers /\ [][NextLayers]_vars

\* The default configuration under builder calls, set_severity calls and
\* layer applications in any order.
NextConfig ==
    \/ \E t \in {10} : Set_threshold(t)
    \/ \E b \in BOOLEAN : Set_check_short(b)
    \/ \E b \in BOOLEAN : Set_require_issue_ref(b)
    \/ \E b \in BOOLEAN : Set_require_conventional_format(b)
    \/ \E b \in BOOLEAN : Set_check_vague_language(b)
    \/ \E b \in BOOLEAN : Set_check_wip(b)
    \/ \E b \in BOOLEAN : Set_check_imperative(b)
    \/ \E v \in {"ShortCommit", "WipCommit"} :
          \E s \in {"Error", "Ignore"} : Set_severity(v, s)
    \/ \E tool \in {f \in LayerFilePool :
                        f.threshold = None /\ (f.disable = <<>> \/ f.severity = None)} :
          Call_apply_file_config(tool)
    \/ \E self \in {c \in LayerCliPool :
                        /\ c.threshold = None
                        /\ c.disable = None \/ (c.error = None /\ c.ignore = None)} :
          Call_apply_cli_overrides(self)

SpecConfig == InitLayers /\ [][NextConfig]_vars

(***************************************************************************)
(* The pattern rules on subjects put together from parts: validate_commit  *)
(* under configurations that differ in the reference and format rules.     *)
(***************************************************************************)
InitPatterns ==
    /\ \E issue_ref, format \in BOOLEAN :
          config = py_new(DefaultThreshold, TRUE, issue_ref, format, TRUE, TRUE, TRUE)
    /\ severity_calls = 0
    /\ commit = None
    /\ findings = <<>>
    /\ cli = None
    /\ config_file = None
    /\ file_config = None
    /\ commits = <<>>
    /\ validation_results = <<>>
    /\ suggestion = None
    /\ glob = None
    /\ resolved = None
    /\ result = None
    /\ pc = "config"

NextPatterns ==
    \/ \E v \in {"MissingReference", "InvalidFormat"} :
          \E s \in Severity : Set_severity(v, s)
    \/ \E s \in FormatPool \cup ReferencePool : ValidateCommit(Commit("abc123", s))
    \/ DropFindings

SpecPatterns == InitPatterns /\ [][NextPatterns]_vars

(***************************************************************************)
(* Suggestions: the report asks a rule kind for its suggestion on a        *)
(* subject.                                                                *)
(***************************************************************************)
InitSuggest ==
    /\ config = DefaultConfig
    /\ severity_calls = 0
    /\ commit = None
    /\ findings = <<>>
    /\ cli = None
    /\ config_file = None
    /\ file_config = None
    /\ commits = <<>>
    /\ validation_results = <<>>
    /\ suggestion = None
    /\ glob = None
    /\ resolved = None
    /\ result = None
    /\ pc = "config"

\* Validation::suggest(&self, subject)
Suggest(self, subject) ==
    /\ suggestion = None
    /\ suggestion' = Some([validation |-> self, subject |-> subject,
                           text |-> suggest(self, subject)])
    /\ UNCHANGED <<config, severity_calls, commit, findings, cli, config_file,
                   file_config, commits, validation_results, result, glob, resolved,
                   pc>>

\* The caller prints the returned String and drops it.
DropSuggestion ==
    /\ suggestion # None
    /\ suggestion' = None
    /\ UNCHANGED <<config, severity_calls, commit, findings, cli, config_file,
                   file_config, commits, validation_results, result, glob, resolved,
                   pc>>

NextSuggest ==
    \/ \E s \in TypePool : Suggest("InvalidFormat", s)
    \/ \E s \in VerbPool : Suggest("NonImperative", s)
    \/ \E v \in Validation : \E s \in SubjectPool : Suggest(v, s)
    \/ DropSuggestion

SpecSuggest == InitSuggest /\ [][NextSuggest]_vars

(***************************************************************************)
(* Severity strings: run() reads a file whose [severity] table gives one   *)
(* or two rules a severity string.                                         *)
(***************************************************************************)
SeverityStrings ==
    { "error", "Error", "ERROR", "warning", "Warning", "warn", "WARN", "info",
      "INFO", "ignore", "IGNORE", "off", "Off", "", " error", "errors",
      "critical", "fatal", "none", "on" }

SeverityFilePool ==
    { [threshold |-> None, strict |-> None, disable |-> <<>>,
       severity |-> Some(table)] :
        table \in { << <<key, s>> >> :
                        key \in DOMAIN SeverityConfigKeys, s \in SeverityStrings }
                  \cup { << <<"wip", s1>>, <<"vague", s2>> >> :
                            s1 \in SeverityStrings, s2 \in SeverityStrings } }

InitSeverity ==
    /\ config = DefaultConfig
    /\ severity_calls = 0
    /\ commit = None
    /\ findings = <<>>
    /\ cli = Some(GitCLI(None, None, None, None, None, FALSE, FALSE))
    /\ config_file = None
    /\ file_config = None
    /\ commits = <<>>
    /\ validation_results = <<>>
    /\ suggestion = None
    /\ glob = None
    /\ resolved = None
    /\ result = None
    /\ pc = "run"

NextSeverity == \E content \in SeverityFilePool : ApplyFileConfig(content)

SpecSeverity == InitSeverity /\ [][NextSeverity]_vars

(***************************************************************************)
(* Rule names: one name is given to each of the three resolvers, in any    *)
(* order; the two that disable are called on the default configuration.    *)
(***************************************************************************)
NamePool ==
    { "ShortCommit", "shortcommit", "SHORTCOMMIT", "short", "Short", "SHORT",
      "MissingReference", "missingreference", "reference", "Reference", "ref",
      "REF", "InvalidFormat", "invalidformat", "format", "FORMAT",
      "VagueLanguage", "vaguelanguage", "vague", "Vague", "WipCommit",
      "wipcommit", "wip", "WIP", "NonImperative", "nonimperative",
      "imperative", "IMPERATIVE",
      "", " ", "bogus", "shorts", "refs", "commit", "all", "typo", "long",
      " short", "short ", " WIP ", "\tref",
      "short-commit", "non-imperative", "Wip-Commit" }

\* The calls made for the name so far.
Resolved(name) ==
    IF resolved = None
    THEN [name |-> name, from_str |-> None, parse_and_disable |-> None,
          disable_validation |-> None]
    ELSE Unwrap(resolved)

\* name.parse::<Validation>()
Call_from_str(name) ==
    /\ Resolved(name).name = name
    /\ Resolved(name).from_str = None
    /\ resolved' = Some([Resolved(name) EXCEPT
                            !.from_str = Some(Validation_from_str(name))])
    /\ UNCHANGED <<config, severity_calls, commit, findings, cli, config_file,
                   file_config, commits, validation_results, result, suggestion,
                   glob, pc>>

\* ValidationConfig::default().parse_and_disable(name)
Call_parse_and_disable(name) ==
    /\ Resolved(name).name = name
    /\ Resolved(name).parse_and_disable = None
    /\ resolved' = Some([Resolved(name) EXCEPT
                            !.parse_and_disable =
                                Some(parse_and_disable(DefaultConfig, name))])
    /\ UNCHANGED <<config, severity_calls, commit, findings, cli, config_file,
                   file_config, commits, validation_results, result, suggestion,
                   glob, pc>>

\* ValidationConfig::default().disable_validation(name)
Call_disable_validation(name) ==
    /\ Resolved(name).name = name
    /\ Resolved(name).disable_validation = None
    /\ resolved' = Some([Resolved(name) EXCEPT
                            !.disable_validation =
                                Some(disable_validation(DefaultConfig, name))])
    /\ UNCHANGED <<config, severity_calls, commit, findings, cli, config_file,
                   file_config, commits, validation_results, result, suggestion,
                   glob, pc>>

NextNames ==
    \/ \E name \in NamePool : Call_from_str(name)
    \/ \E name \in NamePool : Call_parse_and_disable(name)
    \/ \E name \in NamePool : Call_disable_validation(name)

SpecNames == InitLayers /\ [][NextNames]_vars

(***************************************************************************)
(* Branch patterns (src/src/branch.rs): glob_match_impl as a step machine, *)
(* one step for each iteration of its loops. Indices count from 0 as in    *)
(* the code; an index past the end of a slice is a panic. In the first     *)
(* state glob_match(pattern, text) has called glob_match_impl.             *)
(***************************************************************************)
MaxPatternLen == 3
MaxTextLen == 3

\* All strings of at most n characters over chars.
RECURSIVE Strings(_, _)
Strings(chars, n) ==
    IF n = 0 THEN {""}
    ELSE LET shorter == Strings(chars, n - 1) IN
         shorter \cup {s \o c : s \in shorter, c \in chars}

\* Every short pattern and text, and patterns and texts of the unit tests.
GlobPatterns ==
    Strings({"a", "/", "*", "?"}, MaxPatternLen)
    \cup { "main", "feature/*", "*/main", "release/*/final", "feature/**",
           "**/main", "release-?", "**/*", "*/**", "**/?", "a/**/b" }
GlobTexts ==
    Strings({"a", "/"}, MaxTextLen)
    \cup { "main", "origin/main", "upstream/origin/main", "feature/x",
           "feature/a/b", "release/v1/final", "release-1", "release-10",
           "a/b/c", "a/x/y/b" }

\* slice[idx]
Byte(slice, idx) == Ch(slice, idx + 1)

\* The locals of glob_match_impl at its entry.
glob_match_impl_entry(pattern, text) ==
    [pattern |-> pattern, text |-> text, p_idx |-> 0, t_idx |-> 0,
     star_p_idx |-> None, star_t_idx |-> None, double_star |-> FALSE,
     at |-> "while", returned |-> None]

\* Variant of glob_match_impl_body: backtracking resumes at the text position
\* of the star, not one past it.
glob_match_impl_body_same_position(g) ==
    LET pattern == g.pattern
        text == g.text
        advance == [g EXCEPT !.p_idx = @ + 1, !.t_idx = @ + 1]
        backtrack ==
            IF g.star_p_idx # None /\ g.star_t_idx # None
            THEN LET sp == Unwrap(g.star_p_idx)
                     st == Unwrap(g.star_t_idx)
                 IN  IF st >= Len(text) THEN [g EXCEPT !.at = "panic"]
                     ELSE IF ~g.double_star /\ Byte(text, st) = "/"
                     THEN [g EXCEPT !.at = "returned", !.returned = Some(FALSE)]
                     ELSE [g EXCEPT !.p_idx = sp, !.star_t_idx = Some(st),
                                    !.t_idx = st]
            ELSE [g EXCEPT !.at = "returned", !.returned = Some(FALSE)]
    IN  IF g.p_idx < Len(pattern)
        THEN IF Byte(pattern, g.p_idx) = "*"
             THEN LET p_idx == IF g.p_idx + 1 < Len(pattern)
                                  /\ Byte(pattern, g.p_idx + 1) = "*"
                               THEN g.p_idx + 2 ELSE g.p_idx + 1
                  IN  [g EXCEPT !.double_star = (p_idx = g.p_idx + 2),
                                !.p_idx = p_idx,
                                !.star_p_idx = Some(p_idx),
                                !.star_t_idx = Some(g.t_idx)]
             ELSE IF Byte(pattern, g.p_idx) = "?"
             THEN IF Byte(text, g.t_idx) # "/" THEN advance ELSE backtrack
             ELSE IF Byte(pattern, g.p_idx) = Byte(text, g.t_idx) THEN advance
             ELSE backtrack
        ELSE backtrack

\* The body of `while t_idx < text.len()`, entered with t_idx < text.len().
glob_match_impl_body(g) ==
    LET pattern == g.pattern
        text == g.text
        advance == [g EXCEPT !.p_idx = @ + 1, !.t_idx = @ + 1]
        backtrack ==
            IF g.star_p_idx # None /\ g.star_t_idx # None
            THEN LET sp == Unwrap(g.star_p_idx)
                     st == Unwrap(g.star_t_idx)
                 IN  IF st >= Len(text) THEN [g EXCEPT !.at = "panic"]
                     ELSE IF ~g.double_star /\ Byte(text, st) = "/"
                     THEN [g EXCEPT !.at = "returned", !.returned = Some(FALSE)]
                     ELSE [g EXCEPT !.p_idx = sp, !.star_t_idx = Some(st + 1),
                                    !.t_idx = st + 1]
            ELSE [g EXCEPT !.at = "returned", !.returned = Some(FALSE)]
    IN  IF g.p_idx < Len(pattern)
        THEN IF Byte(pattern, g.p_idx) = "*"
             THEN LET p_idx == IF g.p_idx + 1 < Len(pattern)
                                  /\ Byte(pattern, g.p_idx + 1) = "*"
                               THEN g.p_idx + 2 ELSE g.p_idx + 1
                  IN  [g EXCEPT !.double_star = (p_idx = g.p_idx + 2),
                                !.p_idx = p_idx,
                                !.star_p_idx = Some(p_idx),
                                !.star_t_idx = Some(g.t_idx)]
             ELSE IF Byte(pattern, g.p_idx) = "?"
             THEN IF Byte(text, g.t_idx) # "/" THEN advance ELSE backtrack
             ELSE IF Byte(pattern, g.p_idx) = Byte(text, g.t_idx) THEN advance
             ELSE backtrack
        ELSE backtrack

InitGlob ==
    /\ config = DefaultConfig
    /\ severity_calls = 0
    /\ commit = None
    /\ findings = <<>>
    /\ cli = None
    /\ config_file = None
    /\ file_config = None
    /\ commits = <<>>
    /\ validation_results = <<>>
    /\ suggestion = None
    /\ \E pattern \in GlobPatterns : \E text \in GlobTexts :
          glob = Some(glob_match_impl_entry(pattern, text))
    /\ resolved = None
    /\ result = None
    /\ pc = "config"

\* One iteration of the main loop
GlobLoop ==
    /\ glob # None
    /\ Unwrap(glob).at = "while"
    /\ Unwrap(glob).t_idx < Len(Unwrap(glob).text)
    /\ glob' = Some(glob_match_impl_body(Unwrap(glob)))
    /\ UNCHANGED <<config, severity_calls, commit, findings, cli, config_file,
                   file_config, commits, validation_results, result, suggestion,
                   resolved, pc>>

\* The main loop ends: t_idx has reached text.len()
GlobLoopEnds ==
    /\ glob # None
    /\ Unwrap(glob).at = "while"
    /\ Unwrap(glob).t_idx >= Len(Unwrap(glob).text)
    /\ glob' = Some([Unwrap(glob) EXCEPT !.at = "skip"])
    /\ UNCHANGED <<config, severity_calls, commit, findings, cli, config_file,
                   file_config, commits, validation_results, result, suggestion,
                   resolved, pc>>

\* One iteration of the loop that skips the trailing stars
GlobSkipStar ==
    /\ glob # None
    /\ Unwrap(glob).at = "skip"
    /\ Unwrap(glob).p_idx < Len(Unwrap(glob).pattern)
    /\ Byte(Unwrap(glob).pattern, Unwrap(glob).p_idx) = "*"
    /\ glob' = Some([Unwrap(glob) EXCEPT !.p_idx = @ + 1])
    /\ UNCHANGED <<config, severity_calls, commit, findings, cli, config_file,
                   file_config, commits, validation_results, result, suggestion,
                   resolved, pc>>

\* p_idx == pattern.len()
GlobReturn ==
    /\ glob # None
    /\ Unwrap(glob).at = "skip"
    /\ ~(/\ Unwrap(glob).p_idx < Len(Unwrap(glob).pattern)
         /\ Byte(Unwrap(glob).pattern, Unwrap(glob).p_idx) = "*")
    /\ glob' = Some([Unwrap(glob) EXCEPT
                        !.at = "returned",
                        !.returned = Some(Unwrap(glob).p_idx = Len(Unwrap(glob).pattern))])
    /\ UNCHANGED <<config, severity_calls, commit, findings, cli, config_file,
                   file_config, commits, validation_results, result, suggestion,
                   resolved, pc>>

NextGlob ==
    \/ GlobLoop
    \/ GlobLoopEnds
    \/ GlobSkipStar
    \/ GlobReturn

SpecGlob == InitGlob /\ [][NextGlob]_vars

\* A call that has begun is run to its end.
SpecGlobFair ==
    SpecGlob /\ WF_vars(GlobLoop \/ GlobLoopEnds \/ GlobSkipStar \/ GlobReturn)

(***************************************************************************)
(* Properties.                                                             *)
(***************************************************************************)

\* validate_commit has returned: commit and findings are its argument and
\* its result, config the configuration it was given.
Validated == pc = "validated"
Subject == Unwrap(commit).subject
Reported(validation) ==
    \E k \in 1..Len(findings) : findings[k].validation = validation

\* The enabled flag of each rule.
FlagOf ==
    [v \in Validation |->
       CASE v = "ShortCommit" -> "check_short"
         [] v = "MissingReference" -> "require_issue_ref"
         [] v = "InvalidFormat" -> "require_conventional_format"
         [] v = "VagueLanguage" -> "check_vague_language"
         [] v = "WipCommit" -> "check_wip"
         [] v = "NonImperative" -> "check_imperative"]
RuleEnabled(validation) == config[FlagOf[validation]]

\* The predicate of each rule on the subject of the call.
Matches(validation) ==
    CASE validation = "ShortCommit" -> Len(Subject) <= config.threshold
      [] validation = "MissingReference" -> ~has_reference(Subject)
      [] validation = "InvalidFormat" -> ~has_conventional_format(Subject)
      [] validation = "VagueLanguage" -> find_vague_language(Subject) # None
      [] validation = "WipCommit" -> is_wip_commit(Subject)
      [] validation = "NonImperative" -> find_non_imperative(Subject) # None

\* C1: under the default configuration a subject that matches a WIP pattern
\* gets a WipCommit finding and neither a ShortCommit nor a VagueLanguage
\* finding, whatever its length and wording.
C1_WipSuppressesShortAndVague ==
    (Validated /\ config = DefaultConfig /\ is_wip_commit(Subject))
        => /\ Reported("WipCommit")
           /\ ~Reported("ShortCommit")
           /\ ~Reported("VagueLanguage")

\* A WIP subject that is short and vague was validated under the defaults.
C1_Witness ==
    /\ Validated /\ config = DefaultConfig
    /\ is_wip_commit(Subject)
    /\ Len(Subject) <= config.threshold
    /\ find_vague_language(Subject) # None
    /\ Reported("WipCommit")

C3_SuppressionIsInputDriven ==
    (Validated /\ ~is_wip_commit(Subject) /\ Len(Subject) <= config.threshold
       /\ (~config.check_short \/ get_severity(config, "ShortCommit") = "Ignore"))
        => ~Reported("ShortCommit") /\ ~Reported("NonImperative")

\* A short non-WIP subject in non-imperative mood was validated with the
\* NonImperative rule reporting and the ShortCommit rule silenced.
C3_Witness ==
    /\ Validated
    /\ ~is_wip_commit(Subject)
    /\ Len(Subject) <= config.threshold
    /\ ~config.check_short \/ get_severity(config, "ShortCommit") = "Ignore"
    /\ find_non_imperative(Subject) # None
    /\ config.check_imperative
    /\ get_severity(config, "NonImperative") # "Ignore"

\* C4: no finding is returned for a disabled rule or for a rule whose
\* effective severity is Ignore.
C4_NoFindingForDisabledOrIgnored ==
    Validated =>
        \A k \in 1..Len(findings) :
           /\ RuleEnabled(findings[k].validation)
           /\ get_severity(config, findings[k].validation) # "Ignore"

\* A subject was validated on which a disabled rule and a rule of severity
\* Ignore both match.
C4_Witness ==
    /\ Validated
    /\ \E v \in {"MissingReference", "InvalidFormat"} :
          ~RuleEnabled(v) /\ Matches(v)
    /\ \E w \in {"MissingReference", "InvalidFormat"} :
          RuleEnabled(w) /\ Matches(w) /\ get_severity(config, w) = "Ignore"
    /\ findings # <<>>

\* C5: the returned list holds each rule kind at most once.
C5_AtMostOneFindingPerRule ==
    Validated =>
        \A i, j \in 1..Len(findings) :
           findings[i].validation = findings[j].validation => i = j

\* A call returned four findings.
C5_Witness == Validated /\ Len(findings) = 4

\* The evaluation order of the rules.
EvaluationOrder ==
    <<"WipCommit", "ShortCommit", "VagueLanguage", "MissingReference",
      "InvalidFormat", "NonImperative">>
Rank(validation) == CHOOSE r \in 1..6 : EvaluationOrder[r] = validation

\* C6: the findings are a subsequence of WipCommit, ShortCommit,
\* VagueLanguage, MissingReference, InvalidFormat, NonImperative.
C6_FindingsInEvaluationOrder ==
    Validated =>
        \A i \in 1..(Len(findings) - 1) :
           Rank(findings[i].validation) < Rank(findings[i + 1].validation)

\* A call returned findings of the first and of the last rule with two
\* others in between.
C6_Witness ==
    /\ Validated
    /\ Len(findings) = 4
    /\ findings[1].validation = "WipCommit"
    /\ findings[4].validation = "NonImperative"

\* C7: a MissingReference (InvalidFormat) finding is returned exactly when
\* the rule is enabled, its severity is not Ignore and the subject has no
\* reference (does not have the conventional format), WIP or short or not.
C7_ReferenceAndFormatIndependent ==
    Validated =>
        \A v \in {"MissingReference", "InvalidFormat"} :
           Reported(v) <=>
               (RuleEnabled(v) /\ get_severity(config, v) # "Ignore" /\ Matches(v))

\* A WIP subject within the threshold got both findings.
C7_Witness ==
    /\ Validated
    /\ config.check_wip /\ is_wip_commit(Subject)
    /\ Len(Subject) <= config.threshold
    /\ Reported("MissingReference")
    /\ Reported("InvalidFormat")

\* C8: validate_commits returns one ValidationResult for each input commit
\* whose finding list is non-empty and none for the others, in input order,
\* and no result has an empty finding list.
C8_OneResultPerFailingCommitInOrder ==
    pc = "done" =>
        /\ \A k \in 1..Len(validation_results) :
              /\ validation_results[k].commit \in 1..Len(commits)
              /\ validation_results[k].findings # <<>>
              /\ validation_results[k].findings =
                     validate_commit(commits[validation_results[k].commit], config)
        /\ \A k \in 1..(Len(validation_results) - 1) :
              validation_results[k].commit < validation_results[k + 1].commit
        /\ \A i \in 1..Len(commits) :
              validate_commit(commits[i], config) # <<>>
                  => \E k \in 1..Len(validation_results) :
                        validation_results[k].commit = i

\* A commit without findings preceded a commit with findings.
C8_Witness ==
    /\ pc = "done"
    /\ Len(commits) >= 2
    /\ validate_commit(commits[1], config) = <<>>
    /\ Len(validation_results) >= 1
    /\ validation_results[1].commit = 2

\* The severities the command line gives a rule, and the severity the file
\* gives it.
Names(arg) ==
    IF arg = None THEN {}
    ELSE {trim(Split(Unwrap(arg))[k]) : k \in 1..Len(Split(Unwrap(arg)))}
OverrideSeverities(validation) ==
    {s \in {"Error", "Warning", "Ignore"} :
       \E name \in Names(CASE s = "Error" -> Unwrap(cli).error
                           [] s = "Warning" -> Unwrap(cli).warn
                           [] s = "Ignore" -> Unwrap(cli).ignore) :
          Validation_from_str(name) = Ok(validation)}
FileField ==
    [v \in Validation |->
       CASE v = "ShortCommit" -> "short"
         [] v = "MissingReference" -> "reference"
         [] v = "InvalidFormat" -> "format"
         [] v = "VagueLanguage" -> "vague"
         [] v = "WipCommit" -> "wip"
         [] v = "NonImperative" -> "imperative"]
FileSeverity(validation) ==
    IF file_config = None THEN None
    ELSE IF Unwrap(file_config).severity = None THEN None
    ELSE LET field == Unwrap(Unwrap(file_config).severity)[FileField[validation]] IN
         IF field = None THEN None ELSE Some(Severity_from_str(Unwrap(field)).val)
FileThreshold ==
    IF file_config = None THEN None ELSE Unwrap(file_config).threshold

\* Both layers were applied without an error; the configuration is final.
Layered == pc = "cli_done"

\* C10: after defaults, file layer and override layer, the threshold and
\* each rule's severity are the override layer's value where it sets one,
\* else the file layer's value where it sets one, else the default.
C10_LaterLayerWinsPerField ==
    Layered =>
        /\ config.threshold =
              IF Unwrap(cli).threshold # None THEN Unwrap(Unwrap(cli).threshold)
              ELSE IF FileThreshold # None THEN Unwrap(FileThreshold)
              ELSE DefaultThreshold
        /\ \A v \in Validation :
              IF OverrideSeverities(v) # {}
              THEN get_severity(config, v) \in OverrideSeverities(v)
              ELSE IF FileSeverity(v) # None
              THEN get_severity(config, v) = Unwrap(FileSeverity(v))
              ELSE get_severity(config, v) = get_severity(DefaultConfig, v)

\* Both layers set the threshold, and both set the severity of one rule, to
\* different values.
C10_Witness ==
    /\ Layered
    /\ Unwrap(cli).threshold # None
    /\ FileThreshold # None
    /\ FileThreshold # Unwrap(cli).threshold
    /\ \E v \in Validation :
          /\ OverrideSeverities(v) # {}
          /\ FileSeverity(v) # None
          /\ Unwrap(FileSeverity(v)) \notin OverrideSeverities(v)

\* A layer call returned: result is its Result.
LayerReturned == pc = "config" /\ result # None
LayerFailed == LayerReturned /\ ~Unwrap(result).ok

\* C11: a layer whose merge fails on an unknown rule name or an unknown
\* severity string leaves the threshold, the enabled flags and the
\* severities as they were before the layer was applied.
C11_FailedLayerLeavesConfigUntouched ==
    [][(pc = "config" /\ LayerFailed') => config' = config]_vars

\* The rule names a layer gives: the entries of the disable list and the keys
\* of the [severity] table of the file, the non-empty entries of --disable,
\* --error, --warn and --ignore of the command line.
FileNames ==
    IF config_file = None THEN {}
    ELSE LET content == Unwrap(config_file)
             table == IF content.severity = None THEN <<>>
                      ELSE Unwrap(content.severity)
         IN  {content.disable[k] : k \in 1..Len(content.disable)}
                 \cup {table[k][1] : k \in 1..Len(table)}
CliNames ==
    (Names(Unwrap(cli).disable) \cup Names(Unwrap(cli).error)
        \cup Names(Unwrap(cli).warn) \cup Names(Unwrap(cli).ignore)) \ {""}

\* A name resolves when it is a canonical name or an alias of a rule, in any
\* letter case, with or without hyphens.
Resolves(name) == Validation_from_str(RemoveHyphens(name)).ok

\* text ends with name
EndsWith(text, name) ==
    /\ Len(name) <= Len(text)
    /\ SubSeq(text, Len(text) - Len(name) + 1, Len(text)) = name

\* C12: a layer is merged without an error only when every name it gives
\* resolves, and an unknown-name error carries a name of the layer that does
\* not resolve.
C12_UnknownNameFailsMerge ==
    /\ pc \in {"file_done", "cli_done", "done"} =>
           \A name \in FileNames : Resolves(name)
    /\ pc \in {"cli_done", "done"} =>
           \A name \in CliNames : Resolves(name)
    /\ (pc = "failed" /\ Unwrap(result).val[1] = "CLIError::InvalidValidation") =>
           \E name \in CliNames :
              ~Validation_from_str(name).ok /\ EndsWith(Unwrap(result).val[2], name)
    /\ (pc = "failed" /\ Unwrap(result).val[1] = "CLIError::Config"
          /\ Unwrap(result).val[2][1] = "ConfigError::InvalidValidation") =>
           \E name \in FileNames :
              ~Resolves(name) /\ Unwrap(result).val[2][2] = name

\* C13: no layer application takes a rule from disabled to enabled, and a
\* call of validate_commit returns no finding of a disabled rule, whatever
\* severity the layers gave the rule.
C13_LayersOnlyDisable ==
    [][/\ \A v \in Validation : ~RuleEnabled(v) => ~RuleEnabled(v)'
       /\ pc' = "validated" =>
              \A v \in Validation : ~RuleEnabled(v) => ~Reported(v)']_vars

\* A short subject was validated after an override layer that does not
\* disable gave ShortCommit the severity Error: an earlier layer disabled
\* the rule, and other rules reported.
C13_Witness ==
    /\ Validated
    /\ cli # None
    /\ Unwrap(cli).disable = None
    /\ "short" \in Names(Unwrap(cli).error)
    /\ Unwrap(result).ok
    /\ ~RuleEnabled("ShortCommit")
    /\ get_severity(config, "ShortCommit") = "Error"
    /\ ~is_wip_commit(Subject)
    /\ Matches("ShortCommit")
    /\ findings # <<>>

\* The built-in severity of each kind.
BuiltInSeverity ==
    [v \in Validation |->
       CASE v = "WipCommit" -> "Error"
         [] v = "ShortCommit" -> "Warning"
         [] v = "VagueLanguage" -> "Warning"
         [] v = "NonImperative" -> "Warning"
         [] v = "MissingReference" -> "Info"
         [] v = "InvalidFormat" -> "Info"]

\* C14: while no severity was set, get_severity gives each of the six kinds
\* its built-in default; a step that sets a severity for a kind makes
\* get_severity give that severity for the kind and leaves the other kinds
\* as they were; no other step changes what get_severity gives.
C14_OverriddenElseBuiltInSeverity ==
    [][/\ severity_calls = 0 =>
              \A v \in Validation : get_severity(config, v) = BuiltInSeverity[v]
       /\ \A v \in Validation : \A s \in Severity :
              Set_severity(v, s) =>
                  /\ get_severity(config', v) = s
                  /\ \A w \in Validation \ {v} :
                        get_severity(config', w) = get_severity(config, w)
       /\ severity_calls' = severity_calls =>
              \A v \in Validation :
                 get_severity(config', v) = get_severity(config, v)]_vars

\* One kind has an overridden severity that is not its built-in default, the
\* others have their defaults.
C14_Witness ==
    /\ severity_calls > 0
    /\ \E v \in Validation :
          /\ get_severity(config, v) # BuiltInSeverity[v]
          /\ \A w \in Validation \ {v} : get_severity(config, w) = BuiltInSeverity[w]

\* Some finding of some fetched commit has the severity.
SomeFinding(severity) ==
    \E i \in 1..Len(commits) :
       LET found == validate_commit(commits[i], config) IN
       \E k \in 1..Len(found) : found[k].severity = severity
ValidationFailed ==
    ~Unwrap(result).ok /\ Unwrap(result).val[1] = "CLIError::ValidationFailed"

\* C15: once the commits are fetched, commit_analyzer returns
\* ValidationFailed exactly when some finding has severity Error, or strict
\* is set and some finding has severity Warning; otherwise it returns Ok.
C15_FailsIffErrorOrStrictWarning ==
    pc = "done" =>
        IF SomeFinding("Error") \/ (Unwrap(cli).strict /\ SomeFinding("Warning"))
        THEN ValidationFailed
        ELSE Unwrap(result) = Ok(<<>>)

\* A strict run over commits with Info findings only returned Ok.
C15_Witness ==
    /\ pc = "done"
    /\ Unwrap(cli).strict
    /\ SomeFinding("Info")
    /\ ~SomeFinding("Warning")
    /\ ~SomeFinding("Error")
    /\ Unwrap(result).ok

\* C16: every finding validate_commit returned has the severity
\* get_severity gives its kind under the configuration of the call.
C16_FindingCarriesEffectiveSeverity ==
    Validated =>
        \A k \in 1..Len(findings) :
           findings[k].severity = get_severity(config, findings[k].validation)

\* A finding of a kind whose severity was overridden was returned, next to
\* a finding of a kind that has its default.
C16_Witness ==
    /\ Validated
    /\ severity_calls > 0
    /\ \E k \in 1..Len(findings) :
          /\ get_severity(config, findings[k].validation)
                 # get_severity(DefaultConfig, findings[k].validation)
          /\ findings[k].severity = get_severity(config, findings[k].validation)
    /\ \E k \in 1..Len(findings) :
          get_severity(config, findings[k].validation)
              = get_severity(DefaultConfig, findings[k].validation)

\* The kinds of the returned findings, in order.
Kinds == [k \in 1..Len(findings) |-> findings[k].validation]
QuickThing ==
    Validated /\ config = DefaultConfig /\ Subject = "WIP: quick thing"

\* C17 as stated: under the defaults "WIP: quick thing" gets WipCommit and
\* InvalidFormat and no finding of another kind.
C17_WipQuickThingTwoKinds ==
    QuickThing => {Kinds[k] : k \in 1..Len(Kinds)} = {"WipCommit", "InvalidFormat"}

\* C17: under the defaults "WIP: quick thing" gets WipCommit,
\* MissingReference and InvalidFormat, in this order, with the default
\* severities, and no ShortCommit, VagueLanguage or NonImperative finding.
C17_WipQuickThingThreeKinds ==
    QuickThing =>
        findings = << Finding("WipCommit", "Error"),
                      Finding("MissingReference", "Info"),
                      Finding("InvalidFormat", "Info") >>

\* "WIP: quick thing", 16 characters against the threshold 30, was validated
\* under the defaults.
C17_Witness ==
    /\ QuickThing
    /\ Len(Subject) <= config.threshold
    /\ Reported("WipCommit")

\* The grammar <type>[(<scope>)][!]: <description>, as constraints on the
\* parts of a subject: the type is one of the eleven allowed types, a scope
\* is not empty, the colon is there, a single space follows it, the
\* description is not empty.
AllowedTypes ==
    {"feat", "fix", "docs", "style", "refactor", "perf", "test", "build", "ci",
     "chore", "revert"}
FormatViolations(p) ==
    {c \in {"type", "scope", "colon", "space", "description"} :
        CASE c = "type" -> p.type \notin AllowedTypes
          [] c = "scope" -> p.scope = "()"
          [] c = "colon" -> p.colon = ""
          [] c = "space" -> p.gap # " "
          [] c = "description" -> p.desc = ""}
FormatPartsOf == [s \in FormatPool |-> {p \in FormatParts : FormatJoin(p) = s}]

\* C18: a subject all of whose parts follow the grammar gets no
\* InvalidFormat finding, and a subject with exactly one part against the
\* grammar gets one when the rule is enabled and its severity is not Ignore.
C18_ConventionalGrammarExact ==
    (Validated /\ Subject \in FormatPool) =>
        \A p \in FormatPartsOf[Subject] :
           /\ FormatViolations(p) = {} => ~Reported("InvalidFormat")
           /\ (Cardinality(FormatViolations(p)) = 1
                 /\ RuleEnabled("InvalidFormat")
                 /\ get_severity(config, "InvalidFormat") # "Ignore")
                  => Reported("InvalidFormat")

\* A subject holds a reference token: '#' and a digit, 'gh-' in any letter
\* case and a digit, or two or more uppercase letters, '-' and a digit.
HoldsReference(s) ==
    \/ \E i \in 1..(Len(s) - 1) :
          Ch(s, i) = "#" /\ IsDigit(Ch(s, i + 1))
    \/ \E i \in 1..(Len(s) - 3) :
          to_lowercase(SubSeq(s, i, i + 2)) = "gh-" /\ IsDigit(Ch(s, i + 3))
    \/ \E i \in 1..(Len(s) - 3) :
          /\ Ch(s, i) \in UpperChars
          /\ Ch(s, i + 1) \in UpperChars
          /\ Ch(s, i + 2) = "-"
          /\ IsDigit(Ch(s, i + 3))

\* C19: with the reference rule reporting, a subject gets a MissingReference
\* finding exactly when it holds no reference token.
C19_ReferenceExactlyTheThreeForms ==
    (Validated /\ RuleEnabled("MissingReference")
       /\ get_severity(config, "MissingReference") # "Ignore")
        => (Reported("MissingReference") <=> ~HoldsReference(Subject))

\* The severity a string stands for: None when it stands for none.
SeverityNamed(s) ==
    LET l == to_lowercase(s) IN
    IF l = "error" THEN Some("Error")
    ELSE IF l = "warning" \/ l = "warn" THEN Some("Warning")
    ELSE IF l = "info" THEN Some("Info")
    ELSE IF l = "ignore" \/ l = "off" THEN Some("Ignore")
    ELSE None

\* The [severity] table of the file that was read, and the kind of a key.
SeverityTable == Unwrap(Unwrap(config_file).severity)
KindOfKey(key) ==
    CHOOSE v \in Validation : key \in SeverityConfigKeys[FileField[v]]

\* C20: when every severity string of the file names a severity, the file
\* layer is merged and each rule has the severity its string names, in any
\* letter case; otherwise the merge fails with InvalidSeverity carrying a
\* string of the file that names no severity.
C20_SeverityStringsParsed ==
    (pc # "run" /\ config_file # None) =>
        IF \A k \in 1..Len(SeverityTable) : SeverityNamed(SeverityTable[k][2]) # None
        THEN /\ pc = "file_done"
             /\ \A k \in 1..Len(SeverityTable) :
                   get_severity(config, KindOfKey(SeverityTable[k][1]))
                       = Unwrap(SeverityNamed(SeverityTable[k][2]))
        ELSE /\ pc = "failed"
             /\ \E k \in 1..Len(SeverityTable) :
                   /\ SeverityNamed(SeverityTable[k][2]) = None
                   /\ Unwrap(result) =
                         Err(<<"CLIError::Config",
                               <<"ConfigError::InvalidSeverity", SeverityTable[k][2]>> >>)

\* The file gave WipCommit "WARN" and VagueLanguage the empty string: the
\* merge failed on the empty string after WipCommit became Warning.
C20_Witness ==
    /\ pc = "failed"
    /\ config_file # None
    /\ SeverityTable = << <<"wip", "WARN">>, <<"vague", "">> >>
    /\ Unwrap(result).val[2] = <<"ConfigError::InvalidSeverity", "">>
    /\ get_severity(config, "WipCommit") = "Warning"

\* The suggestion asked of a rule kind on a subject.
Suggested(validation) ==
    /\ suggestion # None
    /\ Unwrap(suggestion).validation = validation
FormatHint(type) == "Use conventional format: '" \o type \o ": <description>'"

\* Ordered rules: a rule matches the lowercased subject that starts with one
\* of its prefixes or holds one of its keywords; the first match gives the
\* type, no match gives feat.
TypeRule(starts, holds, type) == [starts |-> starts, holds |-> holds, type |-> type]
FirstMatch(rules, subject) ==
    LET lower == to_lowercase(subject)
        hits == {i \in 1..Len(rules) :
                   \/ \E w \in rules[i].starts : starts_with(lower, w)
                   \/ \E w \in rules[i].holds : contains(lower, w)}
    IN  IF hits = {} THEN "feat" ELSE rules[Min(hits)].type
ClaimedTypeRules ==
    << TypeRule({"merge"}, {}, "chore"),
       TypeRule({}, {"fix", "resolve", "repair", "patch", "correct"}, "fix"),
       TypeRule({"add", "implement", "create", "introduce"}, {"new feature"}, "feat"),
       TypeRule({}, {"refactor", "restructure", "reorganize", "simplify", "clean up"},
                "refactor"),
       TypeRule({"delete", "remove", "init"},
                {"bump", "upgrade", "dependency", "version", "config"}, "chore"),
       TypeRule({}, {"readme", "doc", "comment", "typo"}, "docs"),
       TypeRule({}, {"test", "spec", "coverage"}, "test") >>
AmendedTypeRules ==
    << TypeRule({"merge"}, {}, "chore"),
       TypeRule({"fix"}, {"resolve", "repair", "patch", "correct"}, "fix"),
       TypeRule({"add", "implement", "create", "introduce"}, {"new feature"}, "feat"),
       TypeRule({}, {"refactor", "restructure", "reorganize", "simplify", "clean up"},
                "refactor"),
       TypeRule({"delete", "remove", "init"},
                {"bump", "upgrade", "update dep", "dependency", "version", "config"},
                "chore"),
       TypeRule({}, {"readme", "doc", "comment", "typo"}, "docs"),
       TypeRule({}, {"test", "spec", "coverage"}, "test") >>

\* C21 as stated: the type suggested for InvalidFormat is the type of the
\* first matching rule of: starts with merge -> chore; contains fix, resolve,
\* repair, patch or correct -> fix; starts with add, implement, create or
\* introduce or contains "new feature" -> feat; contains refactor,
\* restructure, reorganize, simplify or "clean up" -> refactor; starts with
\* delete, remove or init or contains bump, upgrade, dependency, version or
\* config -> chore; contains readme, doc, comment or typo -> docs; contains
\* test, spec or coverage -> test; otherwise feat.
C21_TypeByClaimedRules ==
    Suggested("InvalidFormat") =>
        Unwrap(suggestion).text
            = FormatHint(FirstMatch(ClaimedTypeRules, Unwrap(suggestion).subject))

\* C21 amended: the same ordered rules, except that fix is suggested for a
\* subject that starts with fix (not one that merely contains it) and that
\* "update dep" is one more chore keyword.
C21_TypeByOrderedRules ==
    Suggested("InvalidFormat") =>
        Unwrap(suggestion).text
            = FormatHint(FirstMatch(AmendedTypeRules, Unwrap(suggestion).subject))
C21_Witness ==
    /\ Suggested("InvalidFormat")
    /\ Unwrap(suggestion).subject = "tweak update dep"
    /\ Unwrap(suggestion).text = FormatHint("chore")

\* The NonImperative suggestion that names the verb and its imperative.
ImperativeHint(before, after) == "Use imperative: '" \o before \o "' -> '" \o after \o "'"
\* The imperative of a verb form in the letter case of its first letter; the
\* pattern ignores case, so the form is looked up with its case folded.
MappedImperative(before) ==
    LET mapped == IMPERATIVE_MAP[case_fold(before)] IN
    IF SubSeq(before, 1, 1) \in UpperChars THEN Capitalized(mapped) ELSE mapped

\* C22: for every verb form the non-imperative pattern matches, in any letter
\* case, the NonImperative suggestion is "'X' -> 'Y'" with Y the imperative
\* the map gives for X (not X itself, not the generic hint), and Y starts
\* with an uppercase letter exactly when X does.
C22_MapClosedOverVocabulary ==
    Suggested("NonImperative") =>
        LET found == find_non_imperative(Unwrap(suggestion).subject) IN
        found # None =>
            /\ case_fold(Unwrap(found)) \in DOMAIN IMPERATIVE_MAP
            /\ Unwrap(suggestion).text
                   = ImperativeHint(Unwrap(found), MappedImperative(Unwrap(found)))
            /\ MappedImperative(Unwrap(found)) # Unwrap(found)
            /\ (SubSeq(MappedImperative(Unwrap(found)), 1, 1) \in UpperChars)
                   <=> (SubSeq(Unwrap(found), 1, 1) \in UpperChars)

\* A call of glob_match_impl and what it returned.
GlobCalled == glob # None
GlobReturned == glob # None /\ Unwrap(glob).returned # None

\* The documented semantics: the text from position j on matches the pattern
\* from position i on (positions count from 1); ** is read before *.
RECURSIVE GlobAccepts(_, _, _, _)
GlobAccepts(pattern, i, text, j) ==
    IF i > Len(pattern) THEN j > Len(text)
    ELSE IF Ch(pattern, i) = "*" /\ Ch(pattern, i + 1) = "*"
    THEN \E k \in j..(Len(text) + 1) : GlobAccepts(pattern, i + 2, text, k)
    ELSE IF Ch(pattern, i) = "*"
    THEN \E k \in j..(Len(text) + 1) :
            /\ \A m \in j..(k - 1) : Ch(text, m) # "/"
            /\ GlobAccepts(pattern, i + 1, text, k)
    ELSE IF Ch(pattern, i) = "?"
    THEN j <= Len(text) /\ Ch(text, j) # "/" /\ GlobAccepts(pattern, i + 1, text, j + 1)
    ELSE j <= Len(text) /\ Ch(text, j) = Ch(pattern, i)
         /\ GlobAccepts(pattern, i + 1, text, j + 1)

\* C23: glob_match(pattern, text) is true exactly when the whole text matches
\* the pattern, where * matches any run of characters without /, ** any run
\* of characters, ? one character other than /, and every other character
\* itself; for all patterns, also those with several wildcards of different
\* kinds.
C23_GlobMatchesDocumentedSemantics ==
    GlobReturned =>
        Unwrap(Unwrap(glob).returned)
            = GlobAccepts(Unwrap(glob).pattern, 1, Unwrap(glob).text, 1)

\* No index of the running call is past the end of its slice, and no access
\* was out of range.
GlobIndicesInRange ==
    GlobCalled =>
        /\ Unwrap(glob).at # "panic"
        /\ Unwrap(glob).p_idx <= Len(Unwrap(glob).pattern)
        /\ Unwrap(glob).t_idx <= Len(Unwrap(glob).text)
        /\ Unwrap(glob).star_p_idx # None =>
               Unwrap(Unwrap(glob).star_p_idx) <= Len(Unwrap(glob).pattern)
        /\ Unwrap(glob).star_t_idx # None =>
               Unwrap(Unwrap(glob).star_t_idx) <= Len(Unwrap(glob).text)
\* An iteration of the main loop returns, advances in the pattern or the
\* text without going back in either, or backtracks: it resumes after the
\* last star at a text position one later than the last time.
GlobIterationProgresses ==
    GlobLoop =>
        LET g == Unwrap(glob)
            h == Unwrap(glob')
        IN  \/ h.returned # None
            \/ /\ h.p_idx >= g.p_idx
               /\ h.t_idx >= g.t_idx
               /\ h.p_idx + h.t_idx > g.p_idx + g.t_idx
            \/ /\ g.star_t_idx # None
               /\ h.star_t_idx = Some(Unwrap(g.star_t_idx) + 1)
               /\ h.t_idx = Unwrap(h.star_t_idx)
               /\ h.p_idx = Unwrap(g.star_p_idx)
               /\ h.star_p_idx = g.star_p_idx

\* C30: glob_match_impl terminates for every pattern and text: each iteration
\* of its main loop advances in the text or the pattern or backtracks to a
\* strictly later text position after the last star, every call that has
\* begun returns, and no index goes past the end of the pattern or the text.
C30_GlobTerminates ==
    /\ []GlobIndicesInRange
    /\ [][GlobIterationProgresses]_vars
    /\ (GlobCalled ~> GlobReturned)
C30_Witness ==
    /\ GlobReturned
    /\ Unwrap(glob).pattern = "*/main"
    /\ Unwrap(glob).text = "origin/main"
    /\ Unwrap(glob).star_t_idx = Some(6)
    /\ Unwrap(glob).returned = Some(TRUE)

\* C24: for every commit and configuration the findings of validate_commit
\* never hold WipCommit together with ShortCommit or VagueLanguage, nor
\* ShortCommit together with NonImperative; so a commit has at most four
\* findings.
C24_ExclusiveKindsAtMostFour ==
    Validated =>
        /\ ~(Reported("WipCommit") /\ Reported("ShortCommit"))
        /\ ~(Reported("WipCommit") /\ Reported("VagueLanguage"))
        /\ ~(Reported("ShortCommit") /\ Reported("NonImperative"))
        /\ Len(findings) <= 4
\* Four findings, WipCommit and NonImperative among them, with the
\* ShortCommit and VagueLanguage rules enabled.
C24_Witness ==
    /\ Validated
    /\ Len(findings) = 4
    /\ Reported("WipCommit") /\ Reported("NonImperative")
    /\ RuleEnabled("ShortCommit") /\ RuleEnabled("VagueLanguage")

\* The WIP rule is enabled and the subject matches a WIP pattern.
WipSuppresses == RuleEnabled("WipCommit") /\ Matches("WipCommit")
\* The rule is enabled, matches the subject and is not ignored.
WouldReport(validation) ==
    /\ RuleEnabled(validation)
    /\ Matches(validation)
    /\ get_severity(config, validation) # "Ignore"

\* C25: ShortCommit and VagueLanguage are suppressed exactly when the
\* WipCommit rule is enabled and the subject matches a WIP pattern, whatever
\* the severity of WipCommit: with severity Ignore there is no WipCommit
\* finding and still no ShortCommit or VagueLanguage finding; with the rule
\* disabled a WIP subject is checked for both like any other subject.
C25_SuppressedIffWipEnabledAndMatched ==
    Validated =>
        /\ \A v \in {"ShortCommit", "VagueLanguage"} :
              Reported(v) <=> (~WipSuppresses /\ WouldReport(v))
        /\ Reported("WipCommit") <=> (WipSuppresses /\ WouldReport("WipCommit"))
\* A short and vague WIP subject validated with WipCommit ignored and the
\* two suppressed rules reporting.
C25_Witness ==
    /\ Validated
    /\ WipSuppresses
    /\ get_severity(config, "WipCommit") = "Ignore"
    /\ WouldReport("ShortCommit") /\ WouldReport("VagueLanguage")
    /\ ~Reported("WipCommit")

\* C26: in every configuration reached from the default one by builder
\* calls, set_severity calls and layer applications, failed ones included,
\* the severity map has an entry for each of the six rule kinds, so
\* get_severity never falls back to Warning for want of an entry.
C26_SeverityMapIsTotal ==
    /\ DOMAIN config.severities = Validation
    /\ \A v \in Validation : get_severity(config, v) = config.severities[v]
\* A layer application failed after a set_severity call and a builder call
\* changed the configuration.
C26_Witness ==
    /\ LayerFailed
    /\ severity_calls > 0
    /\ config.severities # DefaultConfig.severities
    /\ ~config.check_vague_language

\* The rule a name stands for: the canonical names and the aliases, in any
\* letter case.
RuleNames ==
    [ShortCommit |-> {"shortcommit", "short"},
     MissingReference |-> {"missingreference", "reference", "ref"},
     InvalidFormat |-> {"invalidformat", "format"},
     VagueLanguage |-> {"vaguelanguage", "vague"},
     WipCommit |-> {"wipcommit", "wip"},
     NonImperative |-> {"nonimperative", "imperative"}]
RulesNamed(name) == {v \in Validation : to_lowercase(name) \in RuleNames[v]}

\* The string steps of a command line in their order (disable, error, warn,
\* ignore), the severity each one sets, and the names each one gives
\* (trimmed, empty entries dropped).
StepSeverity == <<"", "Error", "Warning", "Ignore">>
NonEmpty(name) == name # ""
StepNames(arg) ==
    IF arg = None THEN <<>>
    ELSE LET parts == Split(Unwrap(arg)) IN
         SelectSeq([i \in 1..Len(parts) |-> trim(parts[i])], NonEmpty)
\* failing: the first step that holds an unknown name (5: none does);
\* reaches: the rules a step reaches, which are all it names when it comes
\* before the failing step, those named before the unknown name when it is
\* the failing step, none when it comes after.
OverridePlanOf(self) ==
    LET names == <<StepNames(self.disable), StepNames(self.error),
                   StepNames(self.warn), StepNames(self.ignore)>>
        unknown == [k \in 1..4 |->
                      {i \in 1..Len(names[k]) : RulesNamed(names[k][i]) = {}}]
        failing == IF \E k \in 1..4 : unknown[k] # {}
                   THEN Min({k \in 1..4 : unknown[k] # {}}) ELSE 5
        last == [k \in 1..4 |->
                   IF k < failing THEN Len(names[k])
                   ELSE IF k = failing THEN Min(unknown[k]) - 1
                   ELSE 0]
    IN  [failing |-> failing,
         reaches |-> [k \in 1..4 |->
                        UNION {RulesNamed(names[k][i]) : i \in 1..last[k]}]]
OverridePlan == [self \in CliPool \cup LayerCliPool |-> OverridePlanOf(self)]
FirstFailingStep == OverridePlan[Unwrap(cli)].failing
StepReaches(k) == OverridePlan[Unwrap(cli)].reaches[k]

\* C27: the override layer applies threshold, disable, error, warn, ignore in
\* this order: a rule named by several severity flags gets the severity of
\* the last of them in this order (ignore over warn over error), and the
\* first failing step stops the remaining ones, which leave no trace.
C27_OverrideStepsInFixedOrder ==
    [][(pc = "file_done" /\ pc' # "file_done") =>
         /\ config'.threshold = IF Unwrap(cli).threshold # None
                                THEN Unwrap(Unwrap(cli).threshold)
                                ELSE config.threshold
         /\ \A v \in Validation :
               /\ RuleEnabled(v)' <=> (RuleEnabled(v) /\ v \notin StepReaches(1))
               /\ LET named == {k \in 2..4 : v \in StepReaches(k)} IN
                  get_severity(config, v)'
                      = IF named = {} THEN get_severity(config, v)
                        ELSE StepSeverity[Max(named)]
         /\ (pc' = "failed") <=> (FirstFailingStep <= 4)]_vars
\* The override layer named MissingReference in --error, --warn and --ignore
\* and was applied.
C27_Witness ==
    /\ pc = "cli_done"
    /\ \A k \in 2..4 : "MissingReference" \in StepReaches(k)
    /\ get_severity(config, "MissingReference") = "Ignore"

\* The configuration run() builds from a command line and a file, and the
\* error it returns when a layer fails.
RunLayers(self, content) ==
    LET loaded == load_config(content) IN
    IF ~loaded.ok
    THEN [config |-> DefaultConfig,
          err |-> Some(<<"CLIError::Config", <<loaded.val, "">> >>)]
    ELSE LET file == apply_file_config(DefaultConfig, loaded.val) IN
         IF file.err # None
         THEN [config |-> file.config,
               err |-> Some(<<"CLIError::Config", Unwrap(file.err)>>)]
         ELSE apply_cli_overrides(self, file.config)
\* The file with its strict field set to true, set to false, and not set.
StrictVariants(content) ==
    {[content EXCEPT !.strict = strict] : strict \in {None, Some(TRUE), Some(FALSE)}}
LayerError ==
    /\ pc = "failed"
    /\ Unwrap(result).val[1] \in {"CLIError::Config", "CLIError::InvalidValidation"}

\* C28: the strict field of the file has no effect: with the same commits and
\* command line and an otherwise equal file, run() builds the same
\* configuration, fails in the same layer with the same error, and gives the
\* same verdict, whether the file sets strict to true, to false or not at
\* all; without the CLI strict flag a run fails only on an Error finding.
C28_FileStrictHasNoEffect ==
    /\ (config_file # None /\ (pc = "cli_done" \/ LayerError)) =>
           \A other \in StrictVariants(Unwrap(config_file)) :
              LET layered == RunLayers(Unwrap(cli), other) IN
              /\ layered.config = config
              /\ layered.err = IF pc = "failed" THEN Some(Unwrap(result).val)
                               ELSE None
    /\ (pc = "done" /\ ~Unwrap(cli).strict) =>
           IF SomeFinding("Error") THEN ValidationFailed
           ELSE Unwrap(result) = Ok(<<>>)
\* A run without --strict over commits with Warning findings and no Error
\* finding passed, with strict = true in the file.
C28_Witness ==
    /\ pc = "done"
    /\ config_file # None
    /\ Unwrap(config_file).strict = Some(TRUE)
    /\ ~Unwrap(cli).strict
    /\ SomeFinding("Warning")
    /\ ~SomeFinding("Error")
    /\ Unwrap(result).ok

\* Each resolver was called on the name.
AllResolved ==
    /\ resolved # None
    /\ Unwrap(resolved).from_str # None
    /\ Unwrap(resolved).parse_and_disable # None
    /\ Unwrap(resolved).disable_validation # None
\* The rules a call disabled.
Disabled(returned) == {v \in Validation : ~returned.config[FlagOf[v]]}
NoHyphen(name) == ~contains(name, "-")

\* C29: Validation::from_str, parse_and_disable and disable_validation agree
\* on every name without a hyphen: all three accept it or all three reject
\* it, whatever its letter case, and an accepted name stands for the same
\* rule in all three, the rule of the canonical name or alias.
C29_ResolversAgree ==
    (AllResolved /\ NoHyphen(Unwrap(resolved).name)) =>
        LET name == Unwrap(resolved).name
            parsed == Unwrap(Unwrap(resolved).from_str)
            cli_disabled == Unwrap(Unwrap(resolved).parse_and_disable)
            file_disabled == Unwrap(Unwrap(resolved).disable_validation)
        IN  /\ parsed.ok <=> (cli_disabled.err = None)
            /\ parsed.ok <=> (file_disabled.err = None)
            /\ parsed.ok <=> (RulesNamed(name) # {})
            /\ parsed.ok =>
                  /\ RulesNamed(name) = {parsed.val}
                  /\ Disabled(cli_disabled) = {parsed.val}
                  /\ Disabled(file_disabled) = {parsed.val}

====
